---- MODULE Spec2Model ----
(***************************************************************************)
(* BENXI relay server: the durable store (accounts, signed prekeys,        *)
(* one-time prekeys, message queue), the ephemeral store (auth nonces),    *)
(* the start-up sequence and the HTTP handlers.                            *)
(*                                                                         *)
(* A handler is split into steps at the awaited calls between which        *)
(* another request can change what the handler reads or writes next; the   *)
(* frame of a request in flight lives in a per-route collection and is     *)
(* dropped when the response is sent.  `response` is the HTTP response     *)
(* sent by the step just taken (NoResponse when the step sent none), so a  *)
(* state predicate over `response` speaks of every response in the state   *)
(* the store is in when it is sent.  Variables whose comment says          *)
(* "history" record what has been answered so far; no handler reads them.  *)
(*                                                                         *)
(* Conventions.  Null (0) stands for SQL NULL / JS undefined / null.       *)
(* A hex string is a pair <<bytes, spelling>>: hex decoding                *)
(* (Buffer.from(s, 'hex')) keeps the bytes and forgets the spelling, so    *)
(* two different strings may decode to the same key.  An Ed25519           *)
(* signature is the pair <<signer, message>>; it verifies under a key      *)
(* exactly when the key is the signer and the message is the signed one.   *)
(*                                                                         *)
(* Outside SpecRate requests are taken to arrive below the rate limiter's  *)
(* threshold (middleware/rateLimit.js) and are not answered 429.  The clock *)
(* `now` counts days and moves only in SpecReap; a token carries its       *)
(* expiry and a queue row its expires_at.  Auth nonces do not expire       *)
(* within a run.                                                           *)
(***************************************************************************)
EXTENDS Integers, Sequences, FiniteSets, TLC

\* ------------------------------------------------------------------ bounds
MaxAccounts == 2    \* account identifiers gen_random_uuid() can hand out
MaxNonce == 2       \* values randomBytes(32) can hand out
MaxOtpkSeq == 2     \* values the one_time_prekeys id sequence can hand out
MaxFetch == 2       \* bundle fetches in flight, and fetches in a group followed
MaxReplenish == 1   \* replenish requests in flight
MaxMessages == 2    \* message identifiers gen_random_uuid() can hand out
MaxQueue == 103     \* rows of the queue the drains of SpecDrain run against
MaxTime == 31       \* the latest instant the clock is moved to, in days
MaxRevoked == 1     \* rows of revoked_tokens
MaxOverLimit == 1   \* requests of a burst arriving after the limit is reached
MaxLight == 1       \* requests under a header other than the burst's
MaxReplenishSeq == 4 \* ids the sequence hands out to batches of one and two keys
MaxRotate == 2      \* signed prekey rotations in flight
MaxRotations == 2   \* signed prekey rotations that pass the check of the fields

\* ------------------------------------------------------- program constants
crypto_sign_PUBLICKEYBYTES == 32
PREKEY_REFILL_THRESHOLD == 10
PrekeyBatchLimit == 200
MaxCiphertextBytes == 262144
JsonBodyLimit == 524288
DrainLimit == 100
NonceTTL == 120
TokenLifetime == 1          \* expiresIn '24h', in days
MessageTTL == 30            \* INTERVAL '30 days'
SmallintMax == 32767        \* message_type SMALLINT
windowMs == 60000           \* 60 * 1000
max == 60                   \* MAX_REQUESTS_PER_MINUTE || '60'

Null == 0
NoResponse == [op |-> "none"]
NoChallenge == [status |-> 0, nonce |-> Null, public_key |-> <<0, "lower">>, at |-> 0]
\* A body field the request does not carry.
Missing == <<>>
\* WebSocket objects, and a socket no connection has created yet
Sockets == {"ws1", "ws2"}
NoSocket == [readyState |-> "NONE", accountId |-> Null, closeCode |-> 0]
\* history: no group of overlapping fetches is in progress
NoGroup == [K |-> 0, N |-> 0, got |-> 0, clean |-> FALSE]

VARIABLES
    startPc,          \* position of start() in index.js
    pool,             \* db/connection: module variable `pool`
    redisClient,      \* cache/redis: module variable `redis`
    authRedis,        \* api/auth: `const { redis }` read at require time
    accounts,         \* table accounts
    signed_prekeys,   \* table signed_prekeys
    one_time_prekeys, \* table one_time_prekeys
    otpk_seq,         \* sequence behind one_time_prekeys.id (SERIAL)
    otpk_locks,       \* row locks taken by FOR UPDATE and not yet released
    message_queue,    \* table message_queue
    msgIdsUsed,       \* message identifiers gen_random_uuid() has handed out
    redisStore,       \* ephemeral store: key -> value (Null when absent)
    redisExpiry,      \* ephemeral store: key -> the instant after which the key is gone
    nonceCtr,         \* randomBytes(32): every draw is a value never drawn before
    registers,        \* frames of the register requests in flight
    fetches,          \* frames of the bundle fetches in flight
    replenishes,      \* frames of the replenish requests in flight
    response,         \* the response sent by the step just taken
    regHist,          \* history: per identity key, the register responses so far
    authHist,         \* history: challenges answered and verifies attempted
    keyHist,          \* history: one-time prekeys handed out, per fetch group
    sends,            \* frames of the send requests in flight
    sockets,          \* websocket/relay: every socket's readyState and accountId
    connections,      \* websocket/relay: Map accountId -> Set of sockets
    msgHist,          \* history: per queued message, what its send was given
    now,              \* the clock NOW() and jwt.verify read, in days
    revoked_tokens,   \* table revoked_tokens
    hits,             \* rate limiter's store: key -> requests counted in the window
    msNow,            \* the clock in milliseconds, from the start of the process
    rateLog,          \* history: per Authorization header and instant, requests seen and passed
    rotates,          \* frames of the signed prekey rotations in flight
    rotHist,          \* history: per account, the rotations answered 200 so far
    inbox             \* a recipient's client: the entries of its last drain it has yet to delete

startVars == <<startPc, pool, redisClient, authRedis>>
dbVars == <<accounts, signed_prekeys, one_time_prekeys, otpk_seq, otpk_locks,
            message_queue, msgIdsUsed>>
authVars == <<redisStore, redisExpiry, nonceCtr, authHist>>
keyVars == <<fetches, replenishes, keyHist>>
msgVars == <<sends, sockets, connections, msgHist>>
clockVars == <<now, revoked_tokens>>
rateVars == <<hits, msNow, rateLog>>
rotVars == <<rotates, rotHist>>
clientVars == <<inbox>>
vars == <<startVars, dbVars, authVars, registers, regHist, keyVars, msgVars, clockVars,
          rateVars, rotVars, clientVars, response>>

\* ------------------------------------------------------------ value spaces
\* 32-byte Ed25519 identity keys clients hold
IdentityKeys == {1, 2}
AccountIds == 1..MaxAccounts
\* Hex spellings of public keys: every key in lower case, key 1 also in upper
\* case, and one string that decodes to a buffer of the wrong length (bytes 0).
PubKeyHex == {<<k, "lower">> : k \in IdentityKeys \cup {0}} \cup {<<1, "upper">>}
SpkPubs == {"spkA"}
Sign(signer, msg) == <<signer, msg>>

BufferFromHex(h) == h[1]
ByteLength(b) == IF b = 0 THEN 1 ELSE crypto_sign_PUBLICKEYBYTES

crypto_sign_verify_detached(sig, msg, pk) == sig[1] = pk /\ sig[2] = msg

Min(a, b) == IF a < b THEN a ELSE b
Max(a, b) == IF a > b THEN a ELSE b
\* history counters stop at 2: what is asked of them is "at most one"
Bump(n) == Min(n + 1, 2)

\* ---------------------------------------------------------------- start-up
Init ==
    /\ startPc = "connectDB"
    /\ pool = "undefined"
    /\ redisClient = "undefined"
    /\ authRedis = redisClient   \* api/auth is required before start() runs
    /\ accounts = {}
    /\ signed_prekeys = {}
    /\ one_time_prekeys = {}
    /\ otpk_seq = 0
    /\ otpk_locks = {}
    /\ message_queue = {}
    /\ msgIdsUsed = {}
    /\ redisStore = [h \in PubKeyHex |-> Null]
    /\ redisExpiry = [h \in PubKeyHex |-> 0]
    /\ nonceCtr = 0
    /\ registers = {}
    /\ fetches = <<>>
    /\ replenishes = <<>>
    /\ sends = <<>>
    /\ sockets = [s \in Sockets |-> NoSocket]
    /\ connections = <<>>
    /\ msgHist = <<>>
    /\ now = 0
    /\ revoked_tokens = {}
    /\ hits = <<>>
    /\ msNow = 0
    /\ rateLog = <<>>
    /\ rotates = <<>>
    /\ rotHist = <<>>
    /\ inbox = <<>>
    /\ response = NoResponse
    /\ regHist = [k \in IdentityKeys |-> [created |-> 0, failed |-> 0]]
    /\ authHist = [returned |-> {}, issued |-> {}, accepted |-> {},
                   lastUse |-> <<>>, pending |-> NoChallenge]
    /\ keyHist = [handedRows |-> {}, handedPairs |-> {},
                  group |-> [a \in AccountIds |-> NoGroup]]

connectDB ==
    /\ startPc = "connectDB"
    /\ pool' = "connected"
    /\ startPc' = "connectRedis"
    /\ response' = NoResponse
    /\ UNCHANGED <<redisClient, authRedis, dbVars, authVars, registers, regHist, keyVars, msgVars, clockVars, rateVars, rotVars, clientVars>>

connectRedis ==
    /\ startPc = "connectRedis"
    /\ redisClient' = "connected"
    /\ startPc' = "listen"
    /\ response' = NoResponse
    /\ UNCHANGED <<pool, authRedis, dbVars, authVars, registers, regHist, keyVars, msgVars, clockVars, rateVars, rotVars, clientVars>>

listen ==
    /\ startPc = "listen"
    /\ startPc' = "listening"
    /\ response' = NoResponse
    /\ UNCHANGED <<pool, redisClient, authRedis, dbVars, authVars, registers, regHist, keyVars, msgVars, clockVars, rateVars, rotVars, clientVars>>

startFailed ==
    /\ startPc \in {"connectDB", "connectRedis"}
    /\ startPc' = "exited"
    /\ response' = NoResponse
    /\ UNCHANGED <<pool, redisClient, authRedis, dbVars, authVars, registers, regHist, keyVars, msgVars, clockVars, rateVars, rotVars, clientVars>>

Listening == startPc = "listening"

Start == connectDB \/ connectRedis \/ listen \/ startFailed

\* An accounts table whose public_key column carries no UNIQUE constraint.
accounts_public_key_plain(pk) == FALSE

\* ------------------------------------------------------------ durable store
\* accounts.public_key is UNIQUE: an insert of a key already present raises 23505.
accounts_public_key_key(pk) == \E a \in accounts : a.public_key = pk

\* signed_prekeys.account_id is UNIQUE.
signed_prekeys_account_id_key(acct) == \E s \in signed_prekeys : s.account_id = acct

\* one_time_prekeys (account_id, key_id) is UNIQUE.
no_unique_key(acct, kid) == FALSE
one_time_prekeys_account_id_key_id_key(acct, kid) ==
    \E o \in one_time_prekeys : o.account_id = acct /\ o.key_id = kid

\* gen_random_uuid(): any identifier no row of the table holds.
FreshAccountIds == AccountIds \ {a.id : a \in accounts}

AccountsByKey(pk) == {a \in accounts : a.public_key = pk}
AnyAccount(id) == accounts
AccountsById(id) == {a \in accounts : a.id = id}
PoolOf(acct) == {o \in one_time_prekeys : o.account_id = acct}

\* the catch block of a handler: 23505 becomes 409, any other error 500
CatchStatus(code) == IF code = "23505" THEN 409 ELSE 500

Remove(seq, i) == SubSeq(seq, 1, i - 1) \o SubSeq(seq, i + 1, Len(seq))

\* history: an INSERT added a row to acct's pool, so the fetch group in
\* progress (if any) no longer runs without a concurrent upload
PoolGrew(acct) ==
    IF keyHist.group[acct] = NoGroup THEN keyHist
    ELSE [keyHist EXCEPT !.group[acct].clean = FALSE]

\* ------------------------------------------- POST /api/v1/accounts/register
\* Arrays of one-time prekeys a client may upload.
\* Batches used at registration: no key, one key, two keys, one key id twice.
OtA(kid) == [key_id |-> kid, public_key |-> "otA"]
RegisterBatches == {<<>>, <<OtA(1)>>, <<OtA(1), OtA(2)>>, <<OtA(1), OtA(1)>>}
SignedPrekeys ==
    [key_id : {Null, 1}, public_key : SpkPubs,
     signature : {Sign(k, p) : k \in IdentityKeys, p \in SpkPubs}]

\* The response of a register request. inserted is the identifier its INSERT
\* into accounts returned (Null when it inserted none); the body carries
\* account_id only with 201.
RegisterResponse(public_key, inserted, st) ==
    [op |-> "register", public_key |-> public_key, status |-> st,
     inserted |-> inserted, account_id |-> IF st = 201 THEN inserted ELSE Null]

\* history: a register request that passed validation was answered
RegisterAnswered(public_key, st) ==
    LET k == BufferFromHex(public_key) IN
    [regHist EXCEPT ![k] = IF st = 201 THEN [@ EXCEPT !.created = Bump(@)]
                           ELSE IF st = 409 THEN @
                           ELSE [@ EXCEPT !.failed = Bump(@)]]

\* Validation, then the INSERT into accounts.
RegisterAccount(public_key, registration_id, signed_prekey, one_time_prekeys_in) ==
    /\ Listening
    /\ LET pubKeyBytes == BufferFromHex(public_key) IN
       IF \/ registration_id = 0
          \/ ByteLength(pubKeyBytes) # crypto_sign_PUBLICKEYBYTES
          \/ ~crypto_sign_verify_detached(signed_prekey.signature,
                                          signed_prekey.public_key, pubKeyBytes)
       THEN \* missing_fields, invalid_key_length, invalid_signed_prekey_signature
            /\ response' = RegisterResponse(public_key, Null, 400)
            /\ UNCHANGED <<accounts, registers, regHist>>
       ELSE IF accounts_public_key_key(pubKeyBytes)
       THEN /\ response' = RegisterResponse(public_key, Null, CatchStatus("23505"))
            /\ regHist' = RegisterAnswered(public_key, CatchStatus("23505"))
            /\ UNCHANGED <<accounts, registers>>
       ELSE \E id \in FreshAccountIds :
            /\ accounts' = accounts \cup
                  {[id |-> id, public_key |-> pubKeyBytes,
                    registration_id |-> registration_id]}
            /\ registers' = registers \cup
                  {[account_id |-> id, public_key |-> public_key,
                    signed_prekey |-> signed_prekey,
                    one_time_prekeys |-> one_time_prekeys_in, idx |-> 1, pc |-> "spk"]}
            /\ response' = NoResponse
            /\ UNCHANGED regHist
    /\ UNCHANGED <<startVars, signed_prekeys, one_time_prekeys, otpk_seq, otpk_locks,
                   message_queue, msgIdsUsed, authVars, keyVars, msgVars, clockVars, rateVars, rotVars, clientVars>>

\* The INSERT into signed_prekeys; with no one-time prekeys the 201 follows.
RegisterSignedPrekey(r) ==
    /\ r \in registers
    /\ r.pc = "spk"
    /\ LET spk == r.signed_prekey
           code == IF spk.key_id = Null THEN "23502"   \* key_id is NOT NULL
                   ELSE IF signed_prekeys_account_id_key(r.account_id) THEN "23505"
                   ELSE "ok"
           answers == code # "ok" \/ Len(r.one_time_prekeys) = 0
           st == IF code = "ok" THEN 201 ELSE CatchStatus(code)
       IN  /\ signed_prekeys' =
                IF code = "ok"
                THEN signed_prekeys \cup
                       {[account_id |-> r.account_id, key_id |-> spk.key_id,
                         public_key |-> spk.public_key, signature |-> spk.signature]}
                ELSE signed_prekeys
           /\ registers' = IF answers THEN registers \ {r}
                           ELSE (registers \ {r}) \cup {[r EXCEPT !.pc = "otpk"]}
           /\ response' = IF answers THEN RegisterResponse(r.public_key, r.account_id, st)
                          ELSE NoResponse
           /\ regHist' = IF answers THEN RegisterAnswered(r.public_key, st) ELSE regHist
    /\ UNCHANGED <<startVars, accounts, one_time_prekeys, otpk_seq, otpk_locks,
                   message_queue, msgIdsUsed, authVars, keyVars, msgVars, clockVars, rateVars, rotVars, clientVars>>

\* One pass of the loop over one_time_prekeys: a plain INSERT; after the last
\* one the handler answers 201.
RegisterOneTimePrekey(r) ==
    /\ r \in registers
    /\ r.pc = "otpk"
    /\ otpk_seq < MaxOtpkSeq
    /\ LET otpk == r.one_time_prekeys[r.idx]
           code == IF one_time_prekeys_account_id_key_id_key(r.account_id, otpk.key_id)
                   THEN "23505" ELSE "ok"
           answers == code # "ok" \/ r.idx = Len(r.one_time_prekeys)
           st == IF code = "ok" THEN 201 ELSE CatchStatus(code)
       IN  /\ otpk_seq' = otpk_seq + 1
           /\ one_time_prekeys' =
                IF code = "ok"
                THEN one_time_prekeys \cup
                       {[id |-> otpk_seq + 1, account_id |-> r.account_id,
                         key_id |-> otpk.key_id, public_key |-> otpk.public_key]}
                ELSE one_time_prekeys
           /\ keyHist' = IF code = "ok" THEN PoolGrew(r.account_id) ELSE keyHist
           /\ registers' = IF answers THEN registers \ {r}
                           ELSE (registers \ {r}) \cup {[r EXCEPT !.idx = r.idx + 1]}
           /\ response' = IF answers THEN RegisterResponse(r.public_key, r.account_id, st)
                          ELSE NoResponse
           /\ regHist' = IF answers THEN RegisterAnswered(r.public_key, st) ELSE regHist
    /\ UNCHANGED <<startVars, accounts, signed_prekeys, otpk_locks,
                   message_queue, msgIdsUsed, authVars, fetches, replenishes, msgVars, clockVars, rateVars, rotVars, clientVars>>

RegisterSteps ==
    \/ \E r \in registers : RegisterSignedPrekey(r)
    \/ \E r \in registers : RegisterOneTimePrekey(r)

\* Requests with every field present, and one without registration_id.
Register ==
    \/ \E h \in PubKeyHex, spk \in SignedPrekeys, b \in RegisterBatches :
          RegisterAccount(h, 42, spk, b)
    \/ \E h \in PubKeyHex :
          RegisterAccount(h, 0, [key_id |-> 1, public_key |-> "spkA",
                                 signature |-> Sign(BufferFromHex(h), "spkA")], <<>>)
    \/ RegisterSteps

NextRegister == Start \/ Register
SpecRegister == Init /\ [][NextRegister]_vars

\* ------------------------------------------------------------ api/auth.js
\* `redis` as the auth routes see it: the value destructured from the
\* cache/redis exports when the module was loaded.
redis == authRedis

\* What a read of the key yields: a key is gone once the clock has passed the
\* instant its EX set.
redisGet(key) ==
    IF redisStore[key] # Null /\ msNow > redisExpiry[key] THEN Null ELSE redisStore[key]

\* Spellings of well-formed (32-byte) keys.
AuthHex == {h \in PubKeyHex : ByteLength(BufferFromHex(h)) = crypto_sign_PUBLICKEYBYTES}
\* Signatures a client can produce: by a key it holds, over an empty message
\* or over a nonce some challenge response carried.
VerifySignatures ==
    {Sign(k, n) : k \in IdentityKeys, n \in authHist.returned \cup {Null}}

\* POST /challenge, from the body to the response. `drawn` is the value
\* randomBytes(32) yields. The result says what is answered and what is stored.
challengeHandler(public_key, drawn) ==
    LET pubKeyBytes == BufferFromHex(public_key) IN
    IF public_key = Missing
    THEN [status |-> 400, nonce |-> Null, stored |-> FALSE]
    ELSE IF AccountsByKey(pubKeyBytes) = {}
    THEN [status |-> 200, nonce |-> drawn, stored |-> FALSE]
    ELSE IF redis = "undefined"
    THEN \* redis.set on undefined: TypeError, caught
         [status |-> 500, nonce |-> Null, stored |-> FALSE]
    ELSE [status |-> 200, nonce |-> drawn, stored |-> TRUE]

Challenge(public_key) ==
    /\ Listening
    /\ nonceCtr < MaxNonce
    /\ LET out == challengeHandler(public_key, nonceCtr + 1) IN
       /\ nonceCtr' = IF out.status = 400 THEN nonceCtr ELSE nonceCtr + 1
       \* redis.set(challengeKey, nonce, 'EX', 120)
       /\ redisStore' = IF out.stored
                        THEN [redisStore EXCEPT ![public_key] = out.nonce]
                        ELSE redisStore
       /\ redisExpiry' = IF out.stored
                         THEN [redisExpiry EXCEPT ![public_key] = msNow + NonceTTL * 1000]
                         ELSE redisExpiry
       /\ response' = [op |-> "challenge", public_key |-> public_key,
                       status |-> out.status, nonce |-> out.nonce,
                       ttl |-> IF out.stored THEN NonceTTL ELSE 0]
       /\ authHist' = IF out.status = 400 THEN authHist ELSE
                       [authHist EXCEPT
                         !.returned = IF out.nonce = Null THEN @ ELSE @ \cup {out.nonce},
                         !.issued = IF out.stored THEN @ \cup {<<public_key, out.nonce>>}
                                    ELSE @,
                         !.pending = [status |-> out.status, nonce |-> out.nonce,
                                      public_key |-> public_key, at |-> msNow]]
    /\ UNCHANGED <<startVars, dbVars, registers, regHist, keyVars, msgVars, clockVars, rateVars, rotVars, clientVars>>

\* A verify that never consults the challenge store: any signature made with
\* the account's key, over anything, is accepted.
verifyWithoutChallenge(public_key, signature, jti) ==
    LET pubKeyBytes == BufferFromHex(public_key)
        found == AccountsByKey(pubKeyBytes)
    IN
    IF public_key = Missing \/ signature = Missing
    THEN [status |-> 400, error |-> "missing_fields", consumed |-> FALSE,
          sub |-> Null, jti |-> Null]
    ELSE IF signature[1] # pubKeyBytes \/ found = {}
    THEN [status |-> 401, error |-> "invalid_signature", consumed |-> FALSE,
          sub |-> Null, jti |-> Null]
    ELSE [status |-> 200, error |-> "", consumed |-> FALSE,
          sub |-> (CHOOSE a \in found : TRUE).id, jti |-> jti]

\* POST /verify, from the body to the response. `jti` is the uuidv4() drawn.
\* consumed: whether GETDEL ran (and so removed whatever the key held).
verifyHandler(public_key, signature, jti) ==
    LET pubKeyBytes == BufferFromHex(public_key)
        nonce == redisGet(public_key)
        found == AccountsByKey(pubKeyBytes)
        reject(st, err, ran) ==
            [status |-> st, error |-> err, consumed |-> ran, sub |-> Null, jti |-> Null]
    IN
    IF public_key = Missing \/ signature = Missing
    THEN reject(400, "missing_fields", FALSE)
    ELSE IF redis = "undefined"
    THEN \* redis.getdel on undefined: TypeError, caught
         reject(500, "internal_error", FALSE)
    ELSE IF nonce = Null
    THEN reject(401, "invalid_or_expired_challenge", TRUE)
    ELSE IF ~crypto_sign_verify_detached(signature, nonce, pubKeyBytes)
    THEN reject(401, "invalid_signature", TRUE)
    ELSE IF found = {}
    THEN reject(401, "account_not_found", TRUE)
    ELSE [status |-> 200, error |-> "", consumed |-> TRUE,
          sub |-> (CHOOSE a \in found : TRUE).id, jti |-> jti]

Verify(public_key, signature) ==
    /\ Listening
    /\ LET out == verifyHandler(public_key, signature, 1)
           k == BufferFromHex(public_key)
           use == <<public_key, signature[2]>>
           held == IF out.status = 400 THEN Null ELSE redisGet(public_key)
       IN
       /\ redisStore' = IF out.consumed
                        THEN [redisStore EXCEPT ![public_key] = Null]
                        ELSE redisStore
       /\ response' =
             [op |-> "verify", public_key |-> public_key, signature |-> signature,
              status |-> out.status, error |-> out.error,
              token |-> [sub |-> out.sub, jti |-> out.jti],
              \* history: what the key held on arrival; the challenge answered
              \* last, when no challenge and no verify for its key came since;
              \* whether the verify before this one was for the same key
              \* string over the same nonce; whether the nonce held was
              \* accepted before
              held |-> held,
              after |-> IF out.status = 400 THEN NoChallenge ELSE authHist.pending,
              last |-> authHist.lastUse,
              repeated |-> out.status # 400 /\ authHist.lastUse = use,
              reaccepted |-> out.status = 200 /\ held \in authHist.accepted]
       /\ authHist' = IF out.status = 400 THEN authHist ELSE
                       [authHist EXCEPT
                         !.lastUse = use,
                         !.accepted = IF out.status = 200 THEN @ \cup {held} ELSE @,
                         !.pending = IF BufferFromHex(@.public_key) = k
                                     THEN NoChallenge ELSE @]
    /\ UNCHANGED <<startVars, dbVars, registers, regHist, nonceCtr, redisExpiry, keyVars,
                   msgVars, clockVars, rateVars, rotVars, clientVars>>

Auth ==
    \/ \E h \in AuthHex \cup {Missing} : Challenge(h)
    \/ \E h \in AuthHex, sig \in VerifySignatures : Verify(h, sig)
    \/ Verify(<<1, "lower">>, Missing)

\* Registrations that pass validation and upload no one-time prekeys.
PlainRegister ==
    \/ \E k \in IdentityKeys :
          RegisterAccount(<<k, "lower">>, 42,
              [key_id |-> 1, public_key |-> "spkA", signature |-> Sign(k, "spkA")], <<>>)
    \/ \E r \in registers : RegisterSignedPrekey(r)

NextAuth == Start \/ PlainRegister \/ Auth
SpecAuth == Init /\ [][NextAuth]_vars

\* Registrations, challenges and verifies while the clock moves: to one
\* second after the start, and to the instant a nonce stored at the start is
\* last readable and the millisecond after it.
NonceInstants == {1000, NonceTTL * 1000, NonceTTL * 1000 + 1}
ClockTick(t) ==
    /\ Listening
    /\ registers = {}
    /\ t > msNow
    /\ msNow' = t
    /\ response' = NoResponse
    /\ UNCHANGED <<startVars, dbVars, authVars, registers, regHist, keyVars, msgVars,
                   clockVars, hits, rateLog, rotVars, clientVars>>
\* Challenges and verifies for identity key 1, spelled in lower and in upper
\* case, and a verify without signature.
NonceAuth ==
    \/ \E h \in {<<1, "lower">>, <<1, "upper">>} : Challenge(h)
    \/ \E h \in {<<1, "lower">>, <<1, "upper">>}, sig \in VerifySignatures : Verify(h, sig)
    \/ Verify(<<1, "lower">>, Missing)
NextNonce ==
    \/ Start
    \/ PlainRegister
    \/ NonceAuth
    \/ \E t \in NonceInstants : ClockTick(t)
SpecNonce == Init /\ [][NextNonce]_vars

\* -------------------------------------------------------- middleware/auth.js
JWT_SECRET == "JWT_SECRET"
\* jwt.sign({ sub, jti }, secret, { expiresIn }): a token minted now. The
\* token identifier is unique to the subject and the instant of minting.
Token(sub, secret) ==
    [sub |-> sub, secret |-> secret, jti |-> <<sub, now>>, exp |-> now + TokenLifetime]
\* A token minted one lifetime ago: it expires at this instant.
StaleToken(sub) ==
    [sub |-> sub, secret |-> JWT_SECRET, jti |-> <<sub, now - TokenLifetime>>, exp |-> now]
Bearer(token) == <<"Bearer", token>>
\* jwt.verify: the token's signature was made with the secret given
\* and the token has not expired
jwt_verify(token, secret) == token.secret = secret /\ now < token.exp

\* Authorization headers requests carry: none, one of another scheme, a bearer
\* token not signed with JWT_SECRET, a well-signed token that has expired, and
\* a well-signed token per subject.
AuthHeaders ==
    {Missing, <<"Basic", Token(1, JWT_SECRET)>>, Bearer(Token(1, "other")),
     Bearer(StaleToken(1))}
        \cup {Bearer(Token(a, JWT_SECRET)) : a \in AccountIds}

requireAuthUnverified(authHeader) ==
    IF authHeader = Missing \/ authHeader[1] # "Bearer"
    THEN [next |-> FALSE, status |-> 401, error |-> "unauthorized", account_id |-> Null]
    ELSE [next |-> TRUE, status |-> 0, error |-> "", account_id |-> authHeader[2].sub]

\* next: the protected handler runs, with req.account_id = account_id
requireAuth(authHeader) ==
    IF authHeader = Missing \/ authHeader[1] # "Bearer"
    THEN [next |-> FALSE, status |-> 401, error |-> "unauthorized", account_id |-> Null]
    ELSE IF ~jwt_verify(authHeader[2], JWT_SECRET)
    THEN [next |-> FALSE, status |-> 401, error |-> "invalid_token", account_id |-> Null]
    ELSE [next |-> TRUE, status |-> 0, error |-> "", account_id |-> authHeader[2].sub]

\* ------------------------------------------------------------- api/keys.js
\* `one_time_prekey: null` in a bundle, and the absence of a row
NullPrekey == [key_id |-> Null, public_key |-> "null"]
NoRow == [id |-> Null, account_id |-> Null, key_id |-> Null, public_key |-> "null"]
NoSpk == [key_id |-> Null, public_key |-> "null", signature |-> <<0, "null">>]
NoBundle == [registration_id |-> Null, identity_key |-> Null,
             signed_prekey |-> NoSpk, one_time_prekey |-> NullPrekey]

FetchesFor(acct) == {i \in 1..Len(fetches) : fetches[i].account_id = acct}

\* history: the number of rotations of acct answered 200 so far, and the
\* signed prekey the last of them stored
RotOf(acct) ==
    IF acct \in DOMAIN rotHist THEN rotHist[acct] ELSE [n |-> 0, spk |-> NoSpk]

\* A subquery that takes the first row of the pool whether or not it is locked.
SelectFirst(acct) ==
    LET rows == PoolOf(acct) IN
    {o \in rows : \A q \in rows : o.id <= q.id}

\* SELECT id FROM one_time_prekeys WHERE account_id = $1
\*   ORDER BY id ASC LIMIT 1 FOR UPDATE SKIP LOCKED
SelectForUpdateSkipLocked(acct) ==
    LET rows == {o \in PoolOf(acct) : o.id \notin otpk_locks} IN
    {o \in rows : \A q \in rows : o.id <= q.id}

\* A statement that reads the row selected and leaves it in the table.
ReadWithoutDelete(id) ==
    [rows |-> {o \in one_time_prekeys : o.id = id}, table |-> one_time_prekeys]

\* DELETE FROM one_time_prekeys WHERE id = (...) RETURNING key_id, public_key:
\* the rows returned are the rows removed.
DeleteReturning(id) ==
    LET gone == {o \in one_time_prekeys : o.id = id} IN
    [rows |-> gone, table |-> one_time_prekeys \ gone]

FetchResponse(st, err, target) ==
    [op |-> "fetch", status |-> st, error |-> err, account_id |-> target,
     bundle |-> NoBundle, prekey_count |-> 0, needs_prekey_refresh |-> FALSE,
     row |-> Null, rowBefore |-> FALSE, pairBefore |-> FALSE,
     group |-> NoGroup, pool |-> 0]

\* history: the fetch at position i answers. When it is the last fetch in
\* flight for its account, the group it belongs to ends: the response carries
\* the group's record (with `taken` more prekeys handed out) and the record is
\* cleared.
GroupEnds(i) == FetchesFor(fetches[i].account_id) = {i}
GroupAtEnd(i, taken, clean) ==
    IF GroupEnds(i)
    THEN [keyHist.group[fetches[i].account_id] EXCEPT
             !.got = @ + taken, !.clean = @ /\ clean]
    ELSE NoGroup
GroupAfter(i, taken, clean) ==
    IF GroupEnds(i) THEN NoGroup
    ELSE [keyHist.group[fetches[i].account_id] EXCEPT
             !.got = @ + taken, !.clean = @ /\ clean]

\* history: a fetch for acct starts. It opens a group when no other fetch for
\* acct is in flight (K is the pool size at that moment) and joins the group
\* in progress otherwise. Groups of more than MaxFetch fetches are not followed.
FetchJoins(acct) ==
    LET g == keyHist.group[acct] IN
    [keyHist EXCEPT !.group[acct] =
        IF FetchesFor(acct) = {}
        THEN [K |-> Cardinality(PoolOf(acct)), N |-> 1, got |-> 0, clean |-> TRUE]
        ELSE IF g.N < MaxFetch THEN [g EXCEPT !.N = g.N + 1]
        ELSE [g EXCEPT !.clean = FALSE]]

\* requireAuth, then the SELECT on accounts.
FetchAccount(authHeader, account_id) ==
    /\ Listening
    /\ LET auth == requireAuth(authHeader)
           found == AccountsById(account_id)
       IN
       IF ~auth.next
       THEN /\ response' = FetchResponse(auth.status, auth.error, Null)
            /\ UNCHANGED <<fetches, keyHist>>
       ELSE IF found = {}
       THEN /\ response' = FetchResponse(404, "account_not_found", account_id)
            /\ UNCHANGED <<fetches, keyHist>>
       ELSE /\ Len(fetches) < MaxFetch
            /\ LET a == CHOOSE a \in found : TRUE IN
               fetches' = Append(fetches,
                  [account_id |-> account_id, registration_id |-> a.registration_id,
                   public_key |-> a.public_key, spk |-> NoSpk, sel |-> Null,
                   otpk |-> NoRow, pc |-> "spk",
                   \* history: the rotations of the account answered so far
                   rot |-> RotOf(account_id)])
            /\ keyHist' = FetchJoins(account_id)
            /\ response' = NoResponse
    /\ UNCHANGED <<startVars, dbVars, authVars, registers, regHist, replenishes, msgVars, clockVars, rateVars, rotVars, clientVars>>

\* The SELECT on signed_prekeys.
FetchSignedPrekey(i) ==
    /\ i \in 1..Len(fetches)
    /\ fetches[i].pc = "spk"
    /\ LET f == fetches[i]
           rows == {k \in signed_prekeys : k.account_id = f.account_id}
       IN
       IF rows = {}
       THEN /\ response' = FetchResponse(404, "no_signed_prekey", f.account_id)
            /\ fetches' = Remove(fetches, i)
            /\ keyHist' = [keyHist EXCEPT
                              !.group[f.account_id] = GroupAfter(i, 0, FALSE)]
       ELSE /\ LET k == CHOOSE k \in rows : TRUE IN
               fetches' = [fetches EXCEPT ![i].pc = "select",
                  ![i].spk = [key_id |-> k.key_id, public_key |-> k.public_key,
                              signature |-> k.signature]]
            /\ response' = NoResponse
            /\ UNCHANGED keyHist
    /\ UNCHANGED <<startVars, dbVars, authVars, registers, regHist, replenishes, msgVars, clockVars, rateVars, rotVars, clientVars>>

\* The subquery of the DELETE: the first row of the pool that is not locked is
\* locked; with no such row the statement ends having deleted nothing.
FetchSelect(i) ==
    /\ i \in 1..Len(fetches)
    /\ fetches[i].pc = "select"
    /\ LET f == fetches[i]
           picked == SelectForUpdateSkipLocked(f.account_id)
       IN
       IF picked = {}
       THEN /\ fetches' = [fetches EXCEPT ![i].pc = "count"]
            /\ UNCHANGED otpk_locks
       ELSE /\ LET o == CHOOSE o \in picked : TRUE IN
               /\ fetches' = [fetches EXCEPT ![i].pc = "delete", ![i].sel = o.id]
               /\ otpk_locks' = otpk_locks \cup {o.id}
    /\ response' = NoResponse
    /\ UNCHANGED <<startVars, accounts, signed_prekeys, one_time_prekeys, otpk_seq,
                   message_queue, msgIdsUsed, authVars, registers, regHist,
                   replenishes, keyHist, msgVars, clockVars, rateVars, rotVars, clientVars>>

\* The DELETE of the row selected and the end of its transaction.
FetchDelete(i) ==
    /\ i \in 1..Len(fetches)
    /\ fetches[i].pc = "delete"
    /\ LET f == fetches[i]
           otpkResult == DeleteReturning(f.sel)
       IN
       /\ one_time_prekeys' = otpkResult.table
       /\ otpk_locks' = otpk_locks \ {f.sel}
       /\ fetches' = [fetches EXCEPT ![i].pc = "count",
             ![i].otpk = IF otpkResult.rows = {} THEN NoRow
                         ELSE CHOOSE o \in otpkResult.rows : TRUE]
    /\ response' = NoResponse
    /\ UNCHANGED <<startVars, accounts, signed_prekeys, otpk_seq,
                   message_queue, msgIdsUsed, authVars, registers, regHist,
                   replenishes, keyHist, msgVars, clockVars, rateVars, rotVars, clientVars>>

NeedsRefreshAtThreshold(remainingPrekeys) == remainingPrekeys <= PREKEY_REFILL_THRESHOLD
\* remainingPrekeys < (process.env.PREKEY_REFILL_THRESHOLD || 10)
NeedsRefresh(remainingPrekeys) == remainingPrekeys < PREKEY_REFILL_THRESHOLD

\* The COUNT(*) and the 200.
FetchCount(i) ==
    /\ i \in 1..Len(fetches)
    /\ fetches[i].pc = "count"
    /\ LET f == fetches[i]
           otpk == f.otpk
           remainingPrekeys == Cardinality(PoolOf(f.account_id))
           pair == <<f.account_id, otpk.key_id>>
           taken == IF otpk = NoRow THEN 0 ELSE 1
       IN
       /\ response' =
             [op |-> "fetch", status |-> 200, error |-> "", account_id |-> f.account_id,
              bundle |-> [registration_id |-> f.registration_id,
                          identity_key |-> f.public_key,
                          signed_prekey |-> f.spk,
                          one_time_prekey |->
                              IF otpk = NoRow THEN NullPrekey
                              ELSE [key_id |-> otpk.key_id, public_key |-> otpk.public_key]],
              prekey_count |-> remainingPrekeys,
              needs_prekey_refresh |-> NeedsRefresh(remainingPrekeys),
              \* history: the row handed out, and whether that row, or a row
              \* with its (account, key_id), was handed out before
              row |-> otpk.id,
              rowBefore |-> otpk # NoRow /\ otpk.id \in keyHist.handedRows,
              pairBefore |-> otpk # NoRow /\ pair \in keyHist.handedPairs,
              group |-> GroupAtEnd(i, taken, TRUE),
              pool |-> remainingPrekeys,
              \* history: the rotations answered when the fetch started
              rot |-> f.rot]
       /\ keyHist' =
             [keyHist EXCEPT
                 !.handedRows = IF otpk = NoRow THEN @ ELSE @ \cup {otpk.id},
                 !.handedPairs = IF otpk = NoRow THEN @ ELSE @ \cup {pair},
                 !.group[f.account_id] = GroupAfter(i, taken, TRUE)]
       /\ fetches' = Remove(fetches, i)
    /\ UNCHANGED <<startVars, dbVars, authVars, registers, regHist, replenishes, msgVars, clockVars, rateVars, rotVars, clientVars>>

\* PUT /api/v1/keys/prekeys
OtB(kid) == [key_id |-> kid, public_key |-> "otB"]
\* A JSON value of the body: an array with its elements, or a string with
\* its characters (a value that has a length and is not an array). A field
\* the body does not carry reads as the empty array: both are answered
\* missing_prekeys.
JsonArray(elems) == [isArray |-> TRUE, elems |-> elems]
JsonString(chars) == [isArray |-> FALSE, elems |-> chars]
AnyValue(v) == v.isArray \/ ~v.isArray
\* Array.isArray
IsArray(v) == v.isArray
ReplenishBatches == {JsonArray(b) : b \in {<<>>, <<OtA(1)>>, <<OtB(1), OtA(2)>>}}

\* history: the request's Authorization header and one_time_prekeys value,
\* and the table as the step found it
ReplenishResponse(req, st, err, acct, n, total) ==
    [op |-> "replenish", status |-> st, error |-> err, account_id |-> acct,
     uploaded |-> n, total |-> total, request |-> req, table |-> one_time_prekeys]

\* requireAuth and the checks on the body.
ReplenishStart(authHeader, one_time_prekeys_in) ==
    /\ Listening
    /\ LET auth == requireAuth(authHeader)
           req == [authorization |-> authHeader, value |-> one_time_prekeys_in]
       IN
       IF ~auth.next
       THEN /\ response' = ReplenishResponse(req, auth.status, auth.error, Null, 0, 0)
            /\ UNCHANGED replenishes
       ELSE IF ~IsArray(one_time_prekeys_in) \/ Len(one_time_prekeys_in.elems) = 0
       THEN /\ response' = ReplenishResponse(req, 400, "missing_prekeys",
                                             auth.account_id, 0, 0)
            /\ UNCHANGED replenishes
       ELSE IF Len(one_time_prekeys_in.elems) > PrekeyBatchLimit
       THEN /\ response' = ReplenishResponse(req, 400, "too_many_prekeys",
                                             auth.account_id, 0, 0)
            /\ UNCHANGED replenishes
       ELSE /\ Len(replenishes) < MaxReplenish
            /\ replenishes' = Append(replenishes,
                  [account_id |-> auth.account_id,
                   one_time_prekeys |-> one_time_prekeys_in.elems, idx |-> 1,
                   \* history: the request
                   request |-> req])
            /\ response' = NoResponse
    /\ UNCHANGED <<startVars, dbVars, authVars, registers, regHist, fetches, keyHist, msgVars, clockVars, rateVars, rotVars, clientVars>>

\* One pass of the loop: INSERT ... ON CONFLICT (account_id, key_id) DO NOTHING.
\* An account_id that names no account violates the foreign key (23503).
\* The id sequence hands out a value to every INSERT, also to one that finds
\* a conflict; lastSeq is the last value it can hand out.
ReplenishInsertUpTo(i, lastSeq) ==
    /\ i \in 1..Len(replenishes)
    /\ replenishes[i].idx <= Len(replenishes[i].one_time_prekeys)
    /\ otpk_seq < lastSeq
    /\ LET r == replenishes[i]
           key == r.one_time_prekeys[r.idx]
           code == IF one_time_prekeys_account_id_key_id_key(r.account_id, key.key_id)
                   THEN "conflict"
                   ELSE IF AccountsById(r.account_id) = {} THEN "23503"
                   ELSE "ok"
       IN
       /\ otpk_seq' = otpk_seq + 1
       /\ one_time_prekeys' =
             IF code = "ok"
             THEN one_time_prekeys \cup
                    {[id |-> otpk_seq + 1, account_id |-> r.account_id,
                      key_id |-> key.key_id, public_key |-> key.public_key]}
             ELSE one_time_prekeys
       /\ keyHist' = IF code = "ok" THEN PoolGrew(r.account_id) ELSE keyHist
       /\ IF code = "23503"
          THEN /\ replenishes' = Remove(replenishes, i)
               /\ response' = ReplenishResponse(r.request, CatchStatus(code),
                                                "internal_error", r.account_id, 0, 0)
          ELSE /\ replenishes' = [replenishes EXCEPT ![i].idx = r.idx + 1]
               /\ response' = NoResponse
    /\ UNCHANGED <<startVars, accounts, signed_prekeys, otpk_locks,
                   message_queue, msgIdsUsed, authVars, registers, regHist, fetches, msgVars, clockVars, rateVars, rotVars, clientVars>>

ReplenishInsert(i) == ReplenishInsertUpTo(i, MaxOtpkSeq)

\* The COUNT(*) and the 200.
ReplenishCount(i) ==
    /\ i \in 1..Len(replenishes)
    /\ replenishes[i].idx > Len(replenishes[i].one_time_prekeys)
    /\ LET r == replenishes[i] IN
       /\ response' = ReplenishResponse(r.request, 200, "", r.account_id,
                         Len(r.one_time_prekeys), Cardinality(PoolOf(r.account_id)))
       /\ replenishes' = Remove(replenishes, i)
    /\ UNCHANGED <<startVars, dbVars, authVars, registers, regHist, fetches, keyHist, msgVars, clockVars, rateVars, rotVars, clientVars>>

\* Registrations that pass validation, with and without one-time prekeys.
KeysRegister ==
    \/ \E b \in {<<OtA(1)>>, <<OtA(1), OtA(2)>>} :
          RegisterAccount(<<1, "lower">>, 42,
              [key_id |-> 1, public_key |-> "spkA", signature |-> Sign(1, "spkA")], b)
    \/ RegisterAccount(<<2, "lower">>, 42,
              [key_id |-> 1, public_key |-> "spkA", signature |-> Sign(2, "spkA")], <<>>)
    \/ RegisterSteps

\* Key requests arrive while no registration is in flight, and registrations
\* while no key request is; a request the middleware or the body check turns
\* away changes nothing and arrives while nothing is in flight. The requests
\* in flight interleave step by step.
KeysIdle == fetches = <<>> /\ replenishes = <<>>

KeysFetch ==
    \/ \E h \in AuthHeaders, a \in AccountIds :
          /\ requireAuth(h).next \/ KeysIdle
          /\ FetchAccount(h, a)
    \/ \E i \in 1..Len(fetches) : FetchSignedPrekey(i)
    \/ \E i \in 1..Len(fetches) : FetchSelect(i)
    \/ \E i \in 1..Len(fetches) : FetchDelete(i)
    \/ \E i \in 1..Len(fetches) : FetchCount(i)

KeysReplenish ==
    \/ \E h \in AuthHeaders, b \in ReplenishBatches :
          /\ (requireAuth(h).next /\ b.elems # <<>>) \/ KeysIdle
          /\ ReplenishStart(h, b)
    \/ \E i \in 1..Len(replenishes) : ReplenishInsert(i)
    \/ \E i \in 1..Len(replenishes) : ReplenishCount(i)

\* Registrations and bundle fetches.
NextFetch == Start \/ (KeysIdle /\ KeysRegister) \/ (registers = {} /\ KeysFetch)
SpecFetch == Init /\ [][NextFetch]_vars

\* PUT /api/v1/keys/signed
\* Signed prekeys a rotation may carry, and signatures: made by either
\* identity key over the new public key or over another message, and one
\* that is not crypto_sign_BYTES long.
crypto_sign_BYTES == 64
RotateKeys == {[key_id |-> 2, public_key |-> "spkB"], [key_id |-> 3, public_key |-> "spkC"]}
ShortSignature == <<0, "short">>
RotateSignatures ==
    {Sign(k, p) : k \in IdentityKeys, p \in {"spkB", "spkC"}} \cup {ShortSignature}
SignatureLength(sig) == IF sig = ShortSignature THEN 1 ELSE crypto_sign_BYTES

\* history: the request, and signed_prekeys as the step found it
RotateResponse(req, st, err, acct) ==
    [op |-> "rotate", status |-> st, error |-> err, account_id |-> acct,
     request |-> req, table |-> signed_prekeys]

\* requireAuth, the check of the fields, then the SELECT on accounts.
\* key_id Null, public_key "", signature Missing: field absent.
RotateStart(authHeader, key_id, public_key, signature) ==
    /\ Listening
    /\ LET auth == requireAuth(authHeader)
           req == [authorization |-> authHeader, key_id |-> key_id,
                   public_key |-> public_key, signature |-> signature]
       IN
       IF ~auth.next
       THEN /\ response' = RotateResponse(req, auth.status, auth.error, Null)
            /\ UNCHANGED rotates
       ELSE IF key_id = Null \/ public_key = "" \/ signature = Missing
       THEN /\ response' = RotateResponse(req, 400, "missing_fields", auth.account_id)
            /\ UNCHANGED rotates
       ELSE IF AccountsById(auth.account_id) = {}
       THEN \* accountResult.rows[0] is undefined: reading public_key throws
            /\ response' = RotateResponse(req, 500, "internal_error", auth.account_id)
            /\ UNCHANGED rotates
       ELSE /\ Len(rotates) < MaxRotate
            /\ LET a == CHOOSE a \in AccountsById(auth.account_id) : TRUE IN
               rotates' = Append(rotates,
                  [account_id |-> auth.account_id, key_id |-> key_id,
                   spkBytes |-> public_key, sigBytes |-> signature,
                   identityKey |-> a.public_key, request |-> req])
            /\ response' = NoResponse
    /\ UNCHANGED <<startVars, dbVars, authVars, registers, regHist, keyVars, msgVars,
                   clockVars, rateVars, rotHist, clientVars>>

InsertSignedPrekey(row) == signed_prekeys \cup {row}
KeepSignedPrekey(row) ==
    IF signed_prekeys_account_id_key(row.account_id) THEN signed_prekeys
    ELSE signed_prekeys \cup {row}
\* INSERT INTO signed_prekeys ... ON CONFLICT (account_id) DO UPDATE SET
\* key_id, public_key, signature
UpsertSignedPrekey(row) ==
    {s \in signed_prekeys : s.account_id # row.account_id} \cup {row}

\* crypto_sign_verify_detached, which throws when the signature is not
\* crypto_sign_BYTES long; then the upsert and the 200.
RotateUpsert(i) ==
    /\ i \in 1..Len(rotates)
    /\ LET r == rotates[i]
           row == [account_id |-> r.account_id, key_id |-> r.key_id,
                   public_key |-> r.spkBytes, signature |-> r.sigBytes]
       IN
       IF SignatureLength(r.sigBytes) # crypto_sign_BYTES
       THEN /\ response' = RotateResponse(r.request, 500, "internal_error", r.account_id)
            /\ UNCHANGED <<signed_prekeys, rotHist>>
       ELSE IF ~crypto_sign_verify_detached(r.sigBytes, r.spkBytes, r.identityKey)
       THEN /\ response' = RotateResponse(r.request, 400, "invalid_signature", r.account_id)
            /\ UNCHANGED <<signed_prekeys, rotHist>>
       ELSE /\ signed_prekeys' = UpsertSignedPrekey(row)
            /\ rotHist' = [a \in DOMAIN rotHist \cup {r.account_id} |->
                             IF a = r.account_id
                             THEN [n |-> RotOf(a).n + 1,
                                   spk |-> [key_id |-> r.key_id, public_key |-> r.spkBytes,
                                            signature |-> r.sigBytes]]
                             ELSE rotHist[a]]
            /\ response' = RotateResponse(r.request, 200, "", r.account_id)
    /\ rotates' = Remove(rotates, i)
    /\ UNCHANGED <<startVars, accounts, one_time_prekeys, otpk_seq, otpk_locks,
                   message_queue, msgIdsUsed, authVars, registers, regHist, keyVars,
                   msgVars, clockVars, rateVars, clientVars>>

\* Registrations with a signed prekey that has a key_id and, for identity
\* key 1, also with one that has none.
SignedRegister ==
    \/ \E k \in IdentityKeys, kid \in {Null, 1} :
          /\ kid = Null => k = 1
          /\ RegisterAccount(<<k, "lower">>, 42,
                [key_id |-> kid, public_key |-> "spkA", signature |-> Sign(k, "spkA")], <<>>)
    \/ \E r \in registers : RegisterSignedPrekey(r)

\* The signature verifies over the key under the identity key of account a.
Verifies(a, k, sig) ==
    \E acc \in AccountsById(a) :
       /\ SignatureLength(sig) = crypto_sign_BYTES
       /\ crypto_sign_verify_detached(sig, k.public_key, acc.public_key)

\* Rotations under the token of either account: up to MaxRotations pass the
\* check of the fields in a run. A rotation that is turned away arrives
\* while no rotation and no fetch is in flight.
RotationsStarted ==
    Len(rotates) + Cardinality({<<a, n>> \in AccountIds \X (1..MaxRotations) :
                                   n <= RotOf(a).n})
Rotations ==
    \/ \E a \in AccountIds, k \in RotateKeys, sig \in RotateSignatures :
          /\ RotationsStarted < MaxRotations
          /\ Verifies(a, k, sig) \/ (rotates = <<>> /\ fetches = <<>>)
          /\ RotateStart(Bearer(Token(a, JWT_SECRET)), k.key_id, k.public_key, sig)
    \/ /\ rotates = <<>>
       /\ fetches = <<>>
       /\ \/ RotateStart(Missing, 2, "spkB", Sign(1, "spkB"))
          \/ RotateStart(Bearer(Token(1, JWT_SECRET)), Null, "spkB", Sign(1, "spkB"))
          \/ RotateStart(Bearer(Token(1, JWT_SECRET)), 2, "spkB", Missing)
          \/ RotateStart(Bearer(Token(1, JWT_SECRET)), 2, "", Sign(1, "spkB"))
    \/ \E i \in 1..Len(rotates) : RotateUpsert(i)

\* Bundle fetches by account 1 of either account, one at a time.
SignedFetch ==
    \/ \E a \in AccountIds :
          fetches = <<>> /\ FetchAccount(Bearer(Token(1, JWT_SECRET)), a)
    \/ \E i \in 1..Len(fetches) : FetchSignedPrekey(i)
    \/ \E i \in 1..Len(fetches) : FetchSelect(i)
    \/ \E i \in 1..Len(fetches) : FetchDelete(i)
    \/ \E i \in 1..Len(fetches) : FetchCount(i)

\* Registrations, rotations and bundle fetches. Registrations arrive while
\* no other request is in flight.
NextSigned ==
    \/ Start
    \/ (fetches = <<>> /\ rotates = <<>> /\ SignedRegister)
    \/ (registers = {} /\ (Rotations \/ SignedFetch))
SpecSigned == Init /\ [][NextSigned]_vars

\* Registrations, bundle fetches and replenishes.
NextKeys ==
    \/ Start
    \/ (KeysIdle /\ KeysRegister)
    \/ (registers = {} /\ (KeysFetch \/ KeysReplenish))
SpecKeys == Init /\ [][NextKeys]_vars

\* --------------------------------------------------------- websocket/relay.js
NoToken == Token(Null, "none")
\* Frames a client may send: auth with a well-signed token per subject, auth
\* with a token not signed with JWT_SECRET, auth without token, ping, a frame
\* of another type, and bytes that are not JSON.
ClientFrames ==
    {[type |-> "auth", token |-> Token(a, JWT_SECRET)] : a \in AccountIds}
        \cup {[type |-> "auth", token |-> Token(1, "other")],
              [type |-> "auth", token |-> NoToken],
              [type |-> "ping", token |-> NoToken],
              [type |-> "other", token |-> NoToken],
              [type |-> "malformed", token |-> NoToken]}

\* What a socket event did. history: the kind of event, the frame received
\* and the socket as the event found it.
SocketStep(s, event, frame, writes) ==
    [op |-> "socket", socket |-> s, event |-> event, frame |-> frame,
     before |-> sockets[s], writes |-> writes]
NoFrame == [type |-> "none", token |-> NoToken]

\* connections.get(accountId), the empty set when the map has no such key
SocketsOf(acct) == IF acct \in DOMAIN connections THEN connections[acct] ELSE {}

\* wss.on('connection')
SocketConnection(s) ==
    /\ Listening
    /\ sockets[s].readyState = "NONE"
    /\ sockets' = [sockets EXCEPT ![s] = [readyState |-> "OPEN", accountId |-> Null,
                                         closeCode |-> 0]]
    /\ response' = SocketStep(s, "connection", NoFrame, {})
    /\ UNCHANGED <<startVars, dbVars, authVars, registers, regHist, keyVars,
                   sends, connections, msgHist, clockVars, rateVars, rotVars, clientVars>>

\* ws.close(code): starts the closing handshake; nothing when it has started
wsClose(sock, code) ==
    IF sock.readyState = "OPEN"
    THEN [sock EXCEPT !.readyState = "CLOSING", !.closeCode = code]
    ELSE sock
\* ws.send(payload): the frame is written only while the socket is OPEN
wsSend(s, payload) ==
    IF sockets[s].readyState = "OPEN" THEN {<<s, payload>>} ELSE {}

\* connections after connections.get(accountId).add(ws), the set created
\* when the map has none for the account
RegisterConnection(accountId, s) ==
    [a \in DOMAIN connections \cup {accountId} |->
        IF a = accountId THEN SocketsOf(a) \cup {s} ELSE connections[a]]

\* ws.on('message'). Frames of the peer keep arriving after the server began
\* the closing handshake, until the peer's close frame.
SocketMessage(s, message) ==
    /\ sockets[s].readyState \in {"OPEN", "CLOSING"}
    /\ LET accountId == sockets[s].accountId IN
       IF message.type = "malformed"
       THEN \* JSON.parse throws; the catch ignores it
            /\ response' = SocketStep(s, "message", message, {})
            /\ UNCHANGED <<sockets, connections>>
       ELSE IF accountId = Null
       THEN IF message.type # "auth" \/ message.token = NoToken
            THEN /\ sockets' = [sockets EXCEPT ![s] = wsClose(@, 4001)]
                 /\ response' = SocketStep(s, "message", message, {})
                 /\ UNCHANGED connections
            ELSE IF jwt_verify(message.token, JWT_SECRET)
            THEN /\ sockets' = [sockets EXCEPT ![s].accountId = message.token.sub]
                 /\ connections' = RegisterConnection(message.token.sub, s)
                 /\ response' = SocketStep(s, "message", message,
                       wsSend(s, [type |-> "auth_ok", message_id |-> Null]))
            ELSE /\ sockets' = [sockets EXCEPT ![s] = wsClose(@, 4002)]
                 /\ response' = SocketStep(s, "message", message, {})
                 /\ UNCHANGED connections
       ELSE /\ response' = SocketStep(s, "message", message,
                  IF message.type = "ping"
                  THEN wsSend(s, [type |-> "pong", message_id |-> Null]) ELSE {})
            /\ UNCHANGED <<sockets, connections>>
    /\ UNCHANGED <<startVars, dbVars, authVars, registers, regHist, keyVars, sends, msgHist, clockVars, rateVars, rotVars, clientVars>>

KeepEntry(accountId, s) ==
    IF accountId # Null /\ accountId \in DOMAIN connections
    THEN [connections EXCEPT ![accountId] = @ \ {s}]
    ELSE connections
\* connections after the close handler: the socket leaves its account's set,
\* and the set leaves the map when it is empty
Deregister(accountId, s) ==
    IF accountId # Null /\ accountId \in DOMAIN connections
    THEN IF connections[accountId] \ {s} = {}
         THEN [a \in DOMAIN connections \ {accountId} |-> connections[a]]
         ELSE [connections EXCEPT ![accountId] = @ \ {s}]
    ELSE connections

\* ws.on('close'): the peer closed, or the closing handshake the server began
\* has ended.
SocketClose(s) ==
    /\ sockets[s].readyState \in {"OPEN", "CLOSING"}
    /\ sockets' = [sockets EXCEPT ![s].readyState = "CLOSED"]
    /\ connections' = Deregister(sockets[s].accountId, s)
    /\ response' = SocketStep(s, "close", NoFrame, {})
    /\ UNCHANGED <<startVars, dbVars, authVars, registers, regHist, keyVars, sends, msgHist, clockVars, rateVars, rotVars, clientVars>>

broadcastToAll(accountId, payload) ==
    {<<s, payload>> : s \in {t \in UNION {SocketsOf(a) : a \in DOMAIN connections} :
                                sockets[t].readyState = "OPEN"}}
\* The frames broadcastToAccount writes: the payload, to every socket of the
\* account that is OPEN.
broadcastToAccount(accountId, payload) ==
    {<<s, payload>> : s \in {t \in SocketsOf(accountId) : sockets[t].readyState = "OPEN"}}

\* The events of one socket
SocketOn(s) ==
    \/ SocketConnection(s)
    \/ \E m \in ClientFrames : SocketMessage(s, m)
    \/ SocketClose(s)

Socket == \E s \in Sockets : SocketOn(s)

\* The relay alone: clients connect, send frames and close.
NextSocket == Start \/ Socket
SpecSocket == Init /\ [][NextSocket]_vars

\* --------------------------------------------------------- api/messages.js
\* Hex strings sent as ciphertext: <<payload, length in bytes, spelling>>.
\* Spelling "lower"/"upper": the case of the hex digits; "nonhex": a string
\* that holds characters that are no hex digits after the payload's digits,
\* which Buffer.from drops (here after none); "arraylike": no string but the
\* JSON object {"length": n}, of which Buffer.from makes n zero bytes.
CipherHex == {<<"c1", 4, "lower">>, <<"c1", 4, "upper">>, <<"", 0, "nonhex">>,
              <<"big", MaxCiphertextBytes + 1, "lower">>}
\* Buffer.from(ciphertext, 'hex') and buffer.toString('hex')
CipherFromHex(h) == <<h[1], h[2]>>
CipherToHex(b) == <<b[1], b[2], "lower">>
CipherLength(b) == b[2]
\* Bytes of the JSON body of a send: two hex digits per byte of ciphertext
\* around {"recipient_id":"<uuid>","ciphertext":"..."}.
SendBodyOverhead == 71
SendBodyBytes(h) ==
    IF h = Missing THEN SendBodyOverhead
    ELSE IF h[3] = "arraylike" THEN SendBodyOverhead + 17
    ELSE 2 * h[2] + SendBodyOverhead

\* The values of a SMALLINT column
Smallint == (0 - SmallintMax - 1)..SmallintMax

\* gen_random_uuid(): any identifier not handed out before
FreshMessageIds == (1..MaxMessages) \ msgIdsUsed

QueueOfAnyone(acct) == message_queue
NoLimit(seq, n) == seq
\* WHERE recipient_id = $1
QueueOf(acct) == {m \in message_queue : m.recipient_id = acct}

\* ORDER BY id ASC: the identifiers in ascending order, each with its row (id
\* is the primary key: no two rows share one)
OrderById(rows) ==
    LET ids == {r.id : r \in rows}
        sorted == SelectSeq([i \in 1..Max(MaxQueue, MaxMessages) |-> i],
                            LAMBDA i : i \in ids)
    IN  [n \in 1..Len(sorted) |-> CHOOSE r \in rows : r.id = sorted[n]]
\* LIMIT n
Limit(seq, n) == SubSeq(seq, 1, Min(Len(seq), n))

\* req.body of a send
SendBody(recipient_id, ciphertext, message_type) ==
    [recipient_id |-> recipient_id, ciphertext |-> ciphertext,
     message_type |-> message_type]

\* history: the body of the request answered
SendResponse(req, st, err, id, writes) ==
    [op |-> "send", status |-> st, error |-> err, message_id |-> id, writes |-> writes,
     request |-> req]

\* express.json (a body over the limit raises an error the error handler of
\* index.js answers with 500), requireAuth, the checks on the body, then the
\* SELECT on accounts.
\* recipient_id Null, ciphertext Missing, message_type Null: field absent.
SendRecipient(authHeader, recipient_id, ciphertext, message_type_in) ==
    /\ Listening
    /\ LET auth == requireAuth(authHeader)
           message_type == IF message_type_in = Null THEN 1 ELSE message_type_in
           body == SendBody(recipient_id, ciphertext, message_type_in)
       IN
       IF SendBodyBytes(ciphertext) > JsonBodyLimit
       THEN /\ response' = SendResponse(body, 500, "internal_error", Null, {})
            /\ UNCHANGED sends
       ELSE IF ~auth.next
       THEN /\ response' = SendResponse(body, auth.status, auth.error, Null, {})
            /\ UNCHANGED sends
       ELSE IF recipient_id = Null \/ ciphertext = Missing
       THEN /\ response' = SendResponse(body, 400, "missing_fields", Null, {})
            /\ UNCHANGED sends
       ELSE IF CipherLength(CipherFromHex(ciphertext)) > MaxCiphertextBytes
       THEN /\ response' = SendResponse(body, 413, "message_too_large", Null, {})
            /\ UNCHANGED sends
       ELSE IF AccountsById(recipient_id) = {}
       THEN /\ response' = SendResponse(body, 404, "recipient_not_found", Null, {})
            /\ UNCHANGED sends
       ELSE /\ Cardinality(msgIdsUsed) + Len(sends) < MaxMessages
            /\ sends' = Append(sends,
                  [account_id |-> auth.account_id,
                   recipient_id |-> recipient_id,
                   ciphertext |-> ciphertext,
                   \* history: message_type as the body had it
                   message_type_in |-> message_type_in,
                   \* history: the recipient's rows when the request arrived
                   completed |-> {r.id : r \in QueueOf(recipient_id)},
                   ciphertextBytes |-> CipherFromHex(ciphertext),
                   message_type |-> message_type])
            /\ response' = NoResponse
    /\ UNCHANGED <<startVars, dbVars, authVars, registers, regHist, keyVars,
                   sockets, connections, msgHist, clockVars, rateVars, rotVars, clientVars>>

QueueRowWithSender(m, messageId) ==
    [id |-> messageId, recipient_id |-> m.recipient_id,
     ciphertext |-> m.ciphertextBytes, message_type |-> m.message_type,
     expires_at |-> now + MessageTTL, sender_id |-> m.account_id]
\* The row INSERT INTO message_queue (recipient_id, ciphertext, message_type)
\* makes for the send in flight m (m.account_id is req.account_id);
\* expires_at takes its default, NOW() + INTERVAL '30 days'.
QueueRow(m, messageId) ==
    [id |-> messageId, recipient_id |-> m.recipient_id,
     ciphertext |-> m.ciphertextBytes, message_type |-> m.message_type,
     expires_at |-> now + MessageTTL]

\* The frames the send in flight m writes to sockets once its row has the id.
Notify(m, messageId) ==
    broadcastToAccount(m.recipient_id, [type |-> "new_message", message_id |-> messageId])

\* The sockets the send in flight m writes to.
Notified(m) == {w[1] : w \in Notify(m, Null)}

\* The INSERT into message_queue, the notification and the 201; failed: the
\* sockets whose socket.send(data) did not reach the peer. socket.send is
\* called without callback and not awaited, so broadcastToAccount and the
\* handler see nothing of the failure: the socket emits 'error', whose
\* handler is empty.
\* History in the response: the send that was in flight, the row it made and
\* the sockets whose write failed.
\* A message_type no SMALLINT holds makes the INSERT fail: the catch block
\* answers 500.
SendInsertWrite(i, failed) ==
    /\ i \in 1..Len(sends)
    /\ LET m == sends[i] IN
       IF m.message_type \notin Smallint
       THEN /\ failed = {}
            /\ response' = SendResponse(
                  SendBody(m.recipient_id, m.ciphertext, m.message_type_in),
                  500, "internal_error", Null, {})
            /\ UNCHANGED <<message_queue, msgIdsUsed, msgHist>>
       ELSE
       \E messageId \in FreshMessageIds :
          /\ failed \subseteq Notified(m)
          /\ message_queue' = message_queue \cup {QueueRow(m, messageId)}
          /\ msgIdsUsed' = msgIdsUsed \cup {messageId}
          /\ msgHist' = [id \in DOMAIN msgHist \cup {messageId} |->
                           IF id = messageId
                           THEN [ciphertext |-> m.ciphertext,
                                 message_type |-> m.message_type,
                                 completed |-> m.completed,
                                 alone |-> QueueOf(m.recipient_id) = {}]
                           ELSE msgHist[id]]
          /\ response' = [op |-> "send", status |-> 201, error |-> "",
                          message_id |-> messageId, writes |-> Notify(m, messageId),
                          request |-> SendBody(m.recipient_id, m.ciphertext,
                                               m.message_type_in),
                          send |-> m, row |-> QueueRow(m, messageId),
                          failed |-> failed]
    /\ sends' = Remove(sends, i)
    /\ UNCHANGED <<startVars, accounts, signed_prekeys, one_time_prekeys, otpk_seq,
                   otpk_locks, authVars, registers, regHist, keyVars,
                   sockets, connections, clockVars, rateVars, rotVars, clientVars>>

\* The send whose writes all reach the peer.
SendInsert(i) == SendInsertWrite(i, {})

\* result.rows.map(row => ({ id, ciphertext: hex, message_type }))
DrainEntry(row) ==
    [id |-> row.id, ciphertext |-> CipherToHex(row.ciphertext),
     message_type |-> row.message_type]

\* The response of a drain whose query returned rows.
\* history: the request's Authorization header, the recipients of the rows
\* the query returned, and the table as the query found it
DrainResponse(authHeader, accountId, rows) ==
    [op |-> "drain", authorization |-> authHeader,
     status |-> 200, error |-> "", account_id |-> accountId,
     messages |-> [n \in 1..Len(rows) |-> DrainEntry(rows[n])],
     recipients |-> {rows[n].recipient_id : n \in 1..Len(rows)},
     table |-> message_queue]

\* GET /api/v1/messages/receive: the handler
Receive(authHeader) ==
    /\ Listening
    /\ LET auth == requireAuth(authHeader)
           accountId == auth.account_id
       IN
       IF ~auth.next
       THEN response' = [op |-> "drain", authorization |-> authHeader,
                         status |-> auth.status, error |-> auth.error,
                         account_id |-> Null, messages |-> <<>>, recipients |-> {},
                         table |-> message_queue]
       ELSE \E rows \in {Limit(OrderById(QueueOf(accountId)), DrainLimit)} :
               response' = DrainResponse(authHeader, accountId, rows)
    /\ UNCHANGED <<startVars, dbVars, authVars, registers, regHist, keyVars, msgVars, clockVars, rateVars, rotVars>>

\* A drain by a client the model does not follow.
Drain(authHeader) == Receive(authHeader) /\ UNCHANGED clientVars

DeleteWhereId(id, accountId) == {m \in message_queue : m.id = id}
DeleteNone(id, accountId) == {}
\* WHERE id = $1 AND recipient_id = $2
DeleteWhere(id, accountId) ==
    {m \in message_queue : m.id = id /\ m.recipient_id = accountId}

\* account_id: req.account_id; history: the request's Authorization header,
\* `found`, the rows that had this id before the statement ran, and the table
\* before it ran.
DeleteResponse(authHeader, st, err, id, accountId) ==
    [op |-> "delete", authorization |-> authHeader,
     status |-> st, error |-> err, id |-> id,
     account_id |-> accountId, found |-> {m \in message_queue : m.id = id},
     table |-> message_queue]

\* DELETE /api/v1/messages/:id: the handler
DeleteById(authHeader, id) ==
    /\ Listening
    /\ LET auth == requireAuth(authHeader)
           gone == DeleteWhere(id, auth.account_id)
       IN
       IF ~auth.next
       THEN /\ response' = DeleteResponse(authHeader, auth.status, auth.error, id, Null)
            /\ UNCHANGED message_queue
       ELSE /\ message_queue' = message_queue \ gone
            /\ response' = IF gone = {}
                           THEN DeleteResponse(authHeader, 404, "message_not_found", id,
                                               auth.account_id)
                           ELSE DeleteResponse(authHeader, 200, "", id, auth.account_id)
    \* the history of a message ends with its row
    /\ msgHist' = [i \in {r.id : r \in message_queue'} |-> msgHist[i]]
    /\ UNCHANGED <<startVars, accounts, signed_prekeys, one_time_prekeys, otpk_seq,
                   otpk_locks, msgIdsUsed, authVars, registers, regHist, keyVars,
                   sends, sockets, connections, clockVars, rateVars, rotVars>>

\* A delete by a client the model does not follow.
DeleteMessage(authHeader, id) == DeleteById(authHeader, id) /\ UNCHANGED clientVars

\* Send requests that pass the middleware and the checks on the body, and
\* requests that do not: no header, a token not signed with JWT_SECRET, no
\* recipient_id, no ciphertext, a ciphertext of more than 262144 bytes.
\* Ciphertext and message_type of the sends that pass: lower-case hex with
\* no type, upper-case hex with type 2, a string that is no hex with no type.
SendBodies ==
    {<<<<"c1", 4, "lower">>, Null>>, <<<<"c1", 4, "upper">>, 2>>, <<<<"", 0, "nonhex">>, Null>>}
SendRequests ==
    {<<Bearer(Token(a, JWT_SECRET)), r, b[1], b[2]>> :
        a \in AccountIds, r \in AccountIds, b \in SendBodies}
RefusedSends ==
    {<<Missing, 1, <<"c1", 4, "lower">>, Null>>,
     <<Bearer(Token(1, "other")), 1, <<"c1", 4, "lower">>, Null>>,
     <<Bearer(Token(1, JWT_SECRET)), Null, <<"c1", 4, "lower">>, Null>>,
     <<Bearer(Token(1, JWT_SECRET)), 1, Missing, Null>>,
     <<Bearer(Token(1, JWT_SECRET)), 1, <<"big", MaxCiphertextBytes + 1, "lower">>, Null>>}

\* A request the middleware or the body check turns away changes nothing and
\* arrives while no send is in flight.
Messages ==
    \/ \E q \in SendRequests : SendRecipient(q[1], q[2], q[3], q[4])
    \/ \E q \in RefusedSends : sends = <<>> /\ SendRecipient(q[1], q[2], q[3], q[4])
    \/ \E i \in 1..Len(sends) : SendInsert(i)
    \/ \E h \in AuthHeaders : (requireAuth(h).next \/ sends = <<>>) /\ Drain(h)
    \/ \E h \in AuthHeaders, id \in 1..MaxMessages :
          (requireAuth(h).next \/ sends = <<>>) /\ DeleteMessage(h, id)

\* Registrations and the message routes, with no socket connected.
\* Registrations arrive while no send is in flight.
NextMsg ==
    \/ Start
    \/ (sends = <<>> /\ PlainRegister)
    \/ (registers = {} /\ Messages)
SpecMsg == Init /\ [][NextMsg]_vars

\* Registrations, sends and one socket.
RelaySend ==
    \/ \E a \in AccountIds, r \in AccountIds :
          SendRecipient(Bearer(Token(a, JWT_SECRET)), r, <<"c1", 4, "lower">>, Null)
    \/ \E i \in 1..Len(sends) : SendInsert(i)

NextRelay ==
    \/ Start
    \/ (sends = <<>> /\ PlainRegister)
    \/ (registers = {} /\ RelaySend)
    \/ SocketOn("ws1")
SpecRelay == Init /\ [][NextRelay]_vars

\* Sends and two sockets, on a listening server where accounts 1 and 2 are
\* registered and nothing is queued.
InitFanout ==
    /\ startPc = "listening"
    /\ pool = "connected"
    /\ redisClient = "connected"
    /\ authRedis = "undefined"
    /\ accounts = {[public_key |-> k, id |-> k, registration_id |-> 42] : k \in {1, 2}}
    /\ signed_prekeys = {[public_key |-> "spkA", account_id |-> k, key_id |-> 1,
                          signature |-> Sign(k, "spkA")] : k \in {1, 2}}
    /\ one_time_prekeys = {}
    /\ otpk_seq = 0
    /\ otpk_locks = {}
    /\ message_queue = {}
    /\ msgIdsUsed = {}
    /\ msgHist = <<>>
    /\ redisStore = [h \in PubKeyHex |-> Null]
    /\ redisExpiry = [h \in PubKeyHex |-> 0]
    /\ nonceCtr = 0
    /\ registers = {}
    /\ fetches = <<>>
    /\ replenishes = <<>>
    /\ sends = <<>>
    /\ sockets = [s \in Sockets |-> NoSocket]
    /\ connections = <<>>
    /\ now = 0
    /\ revoked_tokens = {}
    /\ hits = <<>>
    /\ msNow = 0
    /\ rateLog = <<>>
    /\ rotates = <<>>
    /\ rotHist = <<>>
    /\ inbox = <<>>
    /\ response = NoResponse
    /\ regHist = [k \in IdentityKeys |-> [created |-> 1, failed |-> 0]]
    /\ authHist = [returned |-> {}, issued |-> {}, accepted |-> {},
                   lastUse |-> <<>>, pending |-> NoChallenge]
    /\ keyHist = [handedRows |-> {}, handedPairs |-> {},
                  group |-> [a \in AccountIds |-> NoGroup]]

\* Sends of account 1 to account 1, to account 2 and to an account that does
\* not exist; a send without Authorization header and one without ciphertext.
\* A send answered without INSERT arrives while no send is in flight.
FanoutSend ==
    \/ \E r \in {1, 2} :
          SendRecipient(Bearer(Token(1, JWT_SECRET)), r, <<"c1", 4, "lower">>, Null)
    \/ /\ sends = <<>>
       /\ \/ SendRecipient(Bearer(Token(1, JWT_SECRET)), MaxAccounts + 1,
                           <<"c1", 4, "lower">>, Null)
          \/ SendRecipient(Missing, 2, <<"c1", 4, "lower">>, Null)
          \/ SendRecipient(Bearer(Token(1, JWT_SECRET)), 2, Missing, Null)
    \/ \E i \in 1..Len(sends), failed \in SUBSET Sockets : SendInsertWrite(i, failed)

NextFanout == FanoutSend \/ Socket
SpecFanout == InitFanout /\ [][NextFanout]_vars

\* The bodies of the sends of SpecSend, <<recipient_id, ciphertext,
\* message_type>>. Four bytes of hex to account 1 with message_type absent,
\* 2, 3 and a number no SMALLINT holds, and an array-like of exactly 262144
\* bytes; then a body without recipient_id, one without ciphertext, hex of
\* exactly and of one more than 262144 bytes, an array-like of one more than
\* 262144 bytes, and a recipient that is no account.
PassingBodies ==
    {<<1, <<"c1", 4, "lower">>, t>> : t \in {Null, 2, 3, SmallintMax + 1}}
      \cup {<<1, <<"zeros", MaxCiphertextBytes, "arraylike">>, Null>>}
RejectedBodies ==
    {<<Null, <<"c1", 4, "lower">>, Null>>,
     <<1, Missing, Null>>,
     <<1, <<"edge", MaxCiphertextBytes, "lower">>, Null>>,
     <<1, <<"big", MaxCiphertextBytes + 1, "lower">>, Null>>,
     <<1, <<"zeros", MaxCiphertextBytes + 1, "arraylike">>, Null>>,
     <<MaxAccounts + 1, <<"c1", 4, "lower">>, Null>>}

\* The send passes express.json, requireAuth and the handler's checks.
SendPasses(recipient_id, ciphertext) ==
    /\ recipient_id # Null
    /\ ciphertext # Missing
    /\ SendBodyBytes(ciphertext) <= JsonBodyLimit
    /\ CipherLength(CipherFromHex(ciphertext)) <= MaxCiphertextBytes
    /\ AccountsById(recipient_id) # {}

\* Sends of account 1 and one socket, on a listening server where accounts 1
\* and 2 are registered and nothing is queued. A send answered without INSERT
\* arrives while no send is in flight.
NextSend ==
    \/ \E b \in PassingBodies \cup RejectedBodies :
          /\ SendPasses(b[1], b[2]) \/ sends = <<>>
          /\ SendRecipient(Bearer(Token(1, JWT_SECRET)), b[1], b[2], b[3])
    \/ \E i \in 1..Len(sends) : SendInsert(i)
    \/ SocketOn("ws1")
SpecSend == InitFanout /\ [][NextSend]_vars

\* Replenishes on a listening server where accounts 1 and 2 are registered
\* and no one-time prekey is stored.
FullBatch == [n \in 1..PrekeyBatchLimit |-> OtA(n)]
SmallBatches == {JsonArray(<<OtA(1)>>), JsonArray(<<OtB(1), OtA(2)>>)}
RefusedBatches ==
    {JsonArray(<<>>), JsonString(<<[char |-> "o"], [char |-> "t"]>>),
     JsonArray(Append(FullBatch, OtA(PrekeyBatchLimit + 1)))}
FullInFlight ==
    \E i \in 1..Len(replenishes) : Len(replenishes[i].one_time_prekeys) = PrekeyBatchLimit

\* A batch of PrekeyBatchLimit keys arrives from account 2 before anything
\* else and is stored before the next request arrives; after it, or without
\* it, batches of one and two keys arrive from both accounts until the id
\* sequence has handed out MaxReplenishSeq values to them. A request that is
\* turned away arrives while none is in flight.
NextReplenish ==
    \/ /\ replenishes = <<>>
       /\ otpk_seq = 0
       /\ ReplenishStart(Bearer(Token(2, JWT_SECRET)), JsonArray(FullBatch))
    \/ \E a \in {1, 2}, b \in SmallBatches :
          /\ ~FullInFlight
          /\ ReplenishStart(Bearer(Token(a, JWT_SECRET)), b)
    \/ \E h \in {Missing, Bearer(Token(1, JWT_SECRET))},
          b \in RefusedBatches \cup SmallBatches :
          /\ replenishes = <<>>
          /\ h = Missing \/ b \in RefusedBatches
          /\ ReplenishStart(h, b)
    \/ \E i \in 1..Len(replenishes) :
          ReplenishInsertUpTo(i,
              IF FullInFlight THEN PrekeyBatchLimit
              ELSE IF otpk_seq >= PrekeyBatchLimit
              THEN PrekeyBatchLimit + MaxReplenishSeq
              ELSE MaxReplenishSeq)
    \/ \E i \in 1..Len(replenishes) : ReplenishCount(i)
SpecReplenish == InitFanout /\ [][NextReplenish]_vars

\* Bundle fetches of account 1's keys on a pool around the refill threshold:
\* account 1 first stores a batch of one key more than the threshold, then
\* fetches by account 2, at most MaxFetch at a time, drain the pool while
\* account 1 replenishes it with one key now and then.
RefillBatch == [n \in 1..(PREKEY_REFILL_THRESHOLD + 1) |-> OtA(n)]
NextRefresh ==
    \/ /\ otpk_seq = 0
       /\ replenishes = <<>>
       /\ ReplenishStart(Bearer(Token(1, JWT_SECRET)), JsonArray(RefillBatch))
    \/ /\ otpk_seq >= Len(RefillBatch)
       /\ ReplenishStart(Bearer(Token(1, JWT_SECRET)), JsonArray(<<OtB(1)>>))
    \/ \E i \in 1..Len(replenishes) :
          ReplenishInsertUpTo(i, Len(RefillBatch) + MaxReplenish)
    \/ \E i \in 1..Len(replenishes) : ReplenishCount(i)
    \/ /\ otpk_seq >= Len(RefillBatch)
       /\ FetchAccount(Bearer(Token(2, JWT_SECRET)), 1)
    \/ \E i \in 1..Len(fetches) :
          FetchSignedPrekey(i) \/ FetchSelect(i) \/ FetchDelete(i) \/ FetchCount(i)
SpecRefresh == InitFanout /\ [][NextRefresh]_vars

\* ------------------------------------------------- middleware/rateLimit.js
\* express-rate-limit with its default store: one counter per key, all
\* counters dropped by a timer every windowMs after the store was created.
HealthPath == "/api/v1/health"
RatePaths == {HealthPath, "/api/v1/messages/receive"}
TcpConnections == {"tcp1", "tcp2"}
\* The Authorization header under which a whole burst is sent, and the
\* headers in the traffic: none, the literal text anonymous, bearer tokens.
HeavyHeader == Bearer(Token(1, JWT_SECRET))
RateHeaders == {Missing, <<"anonymous">>, HeavyHeader, Bearer(Token(2, JWT_SECRET))}
\* Instants at which requests arrive, in milliseconds: one second before the
\* end of the first window and the start of the second.
RateInstants == {windowMs - 1000, windowMs}

\* SHA-256 has no known collisions: the digest stands for its input.
sha256(data) == <<"sha256", data>>
keyByConnection(req) == sha256(<<req.conn>>)
\* keyGenerator: hash of the Authorization header, of 'anonymous' without one
keyGenerator(req) ==
    sha256(IF req.authorization = Missing THEN <<"anonymous">> ELSE req.authorization)
skip(req) == req.path = HealthPath

\* this.hits[key] ?? 0
HitsOf(key) == IF key \in DOMAIN hits THEN hits[key] ELSE 0
\* history: requests with Authorization header h the limiter counted at
\* instant t, and those of them it passed on
LogOf(h, t) ==
    IF <<h, t>> \in DOMAIN rateLog THEN rateLog[<<h, t>>] ELSE [seen |-> 0, passed |-> 0]

RateResponse(req, st, err, passed) ==
    [op |-> "rate", request |-> req, status |-> st, error |-> err, next |-> passed,
     \* history: the counters as the request found them
     before |-> hits]

\* app.use(express.json({ limit })), app.use(rateLimiter): a body over the
\* limit raises an error the error handler answers with 500 before the
\* limiter runs; a request the limiter skips or passes goes on to its route
\* (status 0: the route answers).
RateLimit(req) ==
    /\ Listening
    /\ IF req.bodyBytes > JsonBodyLimit
       THEN /\ response' = RateResponse(req, 500, "internal_error", FALSE)
            /\ UNCHANGED <<hits, rateLog>>
       ELSE IF skip(req)
       THEN /\ response' = RateResponse(req, 0, "", TRUE)
            /\ UNCHANGED <<hits, rateLog>>
       ELSE LET key == keyGenerator(req)
                totalHits == HitsOf(key) + 1
                at == <<req.authorization, msNow>>
                log == LogOf(req.authorization, msNow)
            IN
            /\ hits' = [k \in DOMAIN hits \cup {key} |->
                          IF k = key THEN totalHits ELSE hits[k]]
            /\ rateLog' = [x \in DOMAIN rateLog \cup {at} |->
                             IF x = at
                             THEN [seen |-> log.seen + 1,
                                   passed |-> log.passed + (IF totalHits > max THEN 0 ELSE 1)]
                             ELSE rateLog[x]]
            /\ response' = IF totalHits > max
                           THEN RateResponse(req, 429, "rate_limit_exceeded", FALSE)
                           ELSE RateResponse(req, 0, "", TRUE)
    /\ UNCHANGED <<startVars, dbVars, authVars, registers, regHist, keyVars, msgVars,
                   clockVars, msNow, rotVars, clientVars>>

\* Time passes; the store's timer has dropped every counter when the clock
\* has crossed a multiple of windowMs.
RateTick(t) ==
    /\ t > msNow
    /\ msNow' = t
    /\ hits' = IF t \div windowMs > msNow \div windowMs THEN <<>> ELSE hits
    /\ response' = NoResponse
    /\ UNCHANGED <<startVars, dbVars, authVars, registers, regHist, keyVars, msgVars,
                   clockVars, rateLog, rotVars, clientVars>>

\* The burst under HeavyHeader has used up its window.
RateExhausted == HitsOf(sha256(HeavyHeader)) > max

\* The traffic: from the first instant on, a burst of requests under
\* HeavyHeader over both connections, until MaxOverLimit requests have been
\* turned away in the window; once the burst has used up its window, up to
\* MaxLight requests under each other header, requests for the health path
\* and requests with a body over the limit.
NextRate ==
    \/ \E c \in TcpConnections :
          /\ msNow > 0
          /\ HitsOf(sha256(HeavyHeader)) < max + MaxOverLimit
          /\ RateLimit([conn |-> c, authorization |-> HeavyHeader,
                        path |-> "/api/v1/messages/receive", bodyBytes |-> 0])
    \/ \E c \in TcpConnections, h \in RateHeaders \ {HeavyHeader} :
          /\ RateExhausted
          /\ \A t \in RateInstants : LogOf(h, t).seen < MaxLight
          /\ RateLimit([conn |-> c, authorization |-> h,
                        path |-> "/api/v1/messages/receive", bodyBytes |-> 0])
    \/ \E c \in TcpConnections, h \in RateHeaders :
          /\ RateExhausted
          /\ RateLimit([conn |-> c, authorization |-> h, path |-> HealthPath,
                        bodyBytes |-> 0])
    \/ \E c \in TcpConnections, p \in RatePaths :
          /\ RateExhausted
          /\ RateLimit([conn |-> c, authorization |-> HeavyHeader, path |-> p,
                        bodyBytes |-> JsonBodyLimit + 1])
    \/ \E t \in RateInstants : RateTick(t)
SpecRate == InitFanout /\ [][NextRate]_vars

\* ------------------------------------------------------------- db/init.sql
\* Time passes: the clock moves to a later instant. The instants are the end
\* of a token's life, the day before, the day of and a day after the expiry
\* of a message queued at time 0.
Instants == {TokenLifetime, MessageTTL - 1, MessageTTL, MaxTime}
Tick(t) ==
    /\ t > now
    /\ now' = t
    /\ response' = NoResponse
    /\ UNCHANGED <<startVars, dbVars, authVars, registers, regHist, keyVars, msgVars,
                   revoked_tokens, rateVars, rotVars, clientVars>>

\* Explicit revocation of a token: a row of revoked_tokens with the token's
\* identifier and expiry, inserted by an operator (no route of the server
\* writes the table). jti is the primary key.
Revoke(token) ==
    /\ Cardinality(revoked_tokens) < MaxRevoked
    /\ \A r \in revoked_tokens : r.jti # token.jti
    /\ revoked_tokens' = revoked_tokens \cup {[jti |-> token.jti, expires_at |-> token.exp]}
    /\ response' = [op |-> "revoke", jti |-> token.jti]
    /\ UNCHANGED <<startVars, dbVars, authVars, registers, regHist, keyVars, msgVars, now, rateVars, rotVars, clientVars>>

ExpiredOrDue(rows, T) == {r \in rows : r.expires_at <= T}
\* WHERE expires_at < NOW()
Expired(rows, T) == {r \in rows : r.expires_at < T}

\* SELECT cleanup_expired_data(), run by a scheduler outside the server.
\* history in the response: the instant and the two tables as it found them
Reap ==
    /\ message_queue' = message_queue \ Expired(message_queue, now)
    /\ revoked_tokens' = revoked_tokens \ Expired(revoked_tokens, now)
    /\ msgHist' = [i \in {r.id : r \in message_queue'} |-> msgHist[i]]
    /\ response' = [op |-> "reap", T |-> now, queue |-> message_queue,
                    revoked |-> revoked_tokens]
    /\ UNCHANGED <<startVars, accounts, signed_prekeys, one_time_prekeys, otpk_seq,
                   otpk_locks, msgIdsUsed, authVars, registers, regHist, keyVars,
                   sends, sockets, connections, now, rateVars, rotVars, clientVars>>

\* Sends and drains by holders of tokens minted at the time of the request.
ReapSends ==
    {<<Bearer(Token(1, JWT_SECRET)), r, <<"c1", 4, "lower">>, Null>> : r \in AccountIds}

\* Registrations, sends, drains, revocations, the clock and the reaper.
\* Accounts register at time 0, before the first send and revocation; the
\* clock moves while no request is in flight.
ReapIdle == Listening /\ registers = {} /\ sends = <<>>
NextReap ==
    \/ Start
    \/ (now = 0 /\ msgIdsUsed = {} /\ revoked_tokens = {} /\ sends = <<>> /\ PlainRegister)
    \/ (registers = {} /\ \E q \in ReapSends : SendRecipient(q[1], q[2], q[3], q[4]))
    \/ \E i \in 1..Len(sends) : SendInsert(i)
    \/ (ReapIdle /\ \E a \in AccountIds : Drain(Bearer(Token(a, JWT_SECRET))))
    \/ (ReapIdle /\ \E a \in AccountIds : Revoke(Token(a, JWT_SECRET)))
    \/ (ReapIdle /\ \E t \in Instants : Tick(t))
    \/ (Listening /\ registers = {} /\ Reap)
SpecReap == Init /\ [][NextReap]_vars

\* The running system and what its code schedules: start() runs to the end,
\* a send in flight completes, the clock moves on. Nothing in the server
\* calls cleanup_expired_data() and the cron.schedule of init.sql is a
\* comment: the function runs when somebody outside calls it, if ever.
NextRunning ==
    \/ Start
    \/ (now = 0 /\ msgIdsUsed = {} /\ revoked_tokens = {} /\ sends = <<>> /\ PlainRegister)
    \/ (registers = {} /\ \E q \in ReapSends : SendRecipient(q[1], q[2], q[3], q[4]))
    \/ \E i \in 1..Len(sends) : SendInsert(i)
    \/ (ReapIdle /\ Revoke(Token(1, JWT_SECRET)))
    \/ (ReapIdle /\ \E t \in Instants : Tick(t))
    \/ (Listening /\ registers = {} /\ Reap)
SpecRunning ==
    /\ Init
    /\ [][NextRunning]_vars
    /\ WF_vars(connectDB \/ connectRedis \/ listen)
    /\ WF_vars(\E i \in 1..Len(sends) : SendInsert(i))
    /\ WF_vars(ReapIdle /\ Tick(MaxTime))

\* A server that has been running: both accounts registered and a queue of
\* `size` messages left by earlier sends whose requests all arrived before the
\* first of them was stored, identifiers 1..size, every stride-th of them
\* addressed to account 2 and the others to account 1.
\* Drains and deletes run against it.
QueueSizes == {0, 1, 2, DrainLimit - 1, DrainLimit, DrainLimit + 1, MaxQueue}
QueuedRow(id, stride) ==
    [id |-> id,
     recipient_id |-> IF stride > 0 /\ id % stride = 0 THEN 2 ELSE 1,
     ciphertext |-> CipherFromHex(<<"c1", 4, "lower">>), message_type |-> 1,
     expires_at |-> MessageTTL]

InitDrain ==
    /\ startPc = "listening"
    /\ pool = "connected"
    /\ redisClient = "connected"
    /\ authRedis = "undefined"
    /\ accounts = {[public_key |-> k, id |-> k, registration_id |-> 42] : k \in {1, 2}}
    /\ signed_prekeys = {[public_key |-> "spkA", account_id |-> k, key_id |-> 1,
                          signature |-> Sign(k, "spkA")] : k \in {1, 2}}
    /\ one_time_prekeys = {}
    /\ otpk_seq = 0
    /\ otpk_locks = {}
    /\ \E size \in QueueSizes, stride \in {0, 2, DrainLimit \div 2 + 1} :
          /\ message_queue = {QueuedRow(id, stride) : id \in 1..size}
          /\ msgIdsUsed = 1..size
          /\ msgHist = [id \in 1..size |->
                          [ciphertext |-> <<"c1", 4, "lower">>, message_type |-> 1,
                           completed |-> {},
                           alone |-> \A e \in 1..(id - 1) :
                               QueuedRow(e, stride).recipient_id
                                   # QueuedRow(id, stride).recipient_id]]
    /\ redisStore = [h \in PubKeyHex |-> Null]
    /\ redisExpiry = [h \in PubKeyHex |-> 0]
    /\ nonceCtr = 0
    /\ registers = {}
    /\ fetches = <<>>
    /\ replenishes = <<>>
    /\ sends = <<>>
    /\ sockets = [s \in Sockets |-> NoSocket]
    /\ connections = <<>>
    /\ now = 0
    /\ revoked_tokens = {}
    /\ hits = <<>>
    /\ msNow = 0
    /\ rateLog = <<>>
    /\ rotates = <<>>
    /\ rotHist = <<>>
    /\ inbox = <<>>
    /\ response = NoResponse
    /\ regHist = [k \in IdentityKeys |-> [created |-> 1, failed |-> 0]]
    /\ authHist = [returned |-> {}, issued |-> {}, accepted |-> {},
                   lastUse |-> <<>>, pending |-> NoChallenge]
    /\ keyHist = [handedRows |-> {}, handedPairs |-> {},
                  group |-> [a \in AccountIds |-> NoGroup]]

NextDrain ==
    \/ \E h \in AuthHeaders : Drain(h)
    \/ \E a \in {1, 2}, id \in 1..2 : DeleteMessage(Bearer(Token(a, JWT_SECRET)), id)
SpecDrain == InitDrain /\ [][NextDrain]_vars

\* The client of account 1: it drains, deletes the entries the drain returned
\* one after the other, in the order of the list, and drains again.
ClientHeader == Bearer(Token(1, JWT_SECRET))
ClientDrain ==
    /\ inbox = <<>>
    /\ Receive(ClientHeader)
    /\ inbox' = [n \in 1..Len(response'.messages) |-> response'.messages[n].id]
ClientDelete ==
    /\ inbox # <<>>
    /\ DeleteById(ClientHeader, Head(inbox))
    /\ inbox' = Tail(inbox)

\* Sends to account 1 by account 2 while the client works: as many as there
\* are message identifiers left.
DeliverSend ==
    \/ SendRecipient(Bearer(Token(2, JWT_SECRET)), 1, <<"c1", 4, "lower">>, Null)
    \/ \E i \in 1..Len(sends) : SendInsert(i)
NextDeliver == ClientDrain \/ ClientDelete \/ DeliverSend
\* The client never stops, and a send in flight completes.
SpecDeliver ==
    /\ InitDrain
    /\ [][NextDeliver]_vars
    /\ WF_vars(ClientDrain)
    /\ WF_vars(ClientDelete)
    /\ WF_vars(\E i \in 1..Len(sends) : SendInsert(i))

\* ================================================================== claims
\* ---- registration

C9_RegisterAtomic ==
    (response.op = "register" /\ response.status # 201) =>
        /\ AccountsById(response.inserted) = {}
        /\ ~signed_prekeys_account_id_key(response.inserted)
        /\ PoolOf(response.inserted) = {}

\* ---- challenge and verify

\* C4 (as claimed): no nonce is accepted by two verify requests, and a verify
\* that repeats the verify before it (same key string, signature over the same
\* nonce a challenge returned) is answered 401 invalid_or_expired_challenge.
C4_NonceSingleUse ==
    /\ response.op = "verify" => ~response.reaccepted
    /\ (/\ response.op = "verify"
        /\ response.repeated
        /\ response.signature[2] \in authHist.returned)
       => (response.status = 401 /\ response.error = "invalid_or_expired_challenge")

\* C5: a verify answered 200 found a nonce under its key that a challenge
\* stored there, carries a signature valid under the account's identity key
\* over exactly that nonce, and names that account as the token's subject;
\* every other verify is answered with a status other than 200 and mints no
\* token.
C5_VerifyMintsOnlyOnProof ==
    response.op = "verify" =>
        IF response.status = 200
        THEN /\ response.held # Null
             /\ <<response.public_key, response.held>> \in authHist.issued
             /\ crypto_sign_verify_detached(response.signature, response.held,
                                            BufferFromHex(response.public_key))
             /\ \E a \in AccountsByKey(BufferFromHex(response.public_key)) :
                   response.token.sub = a.id
        ELSE response.token = [sub |-> Null, jti |-> Null]

\* C5 witness: the holder of a registered key sends a verify signed with that
\* key while no nonce is stored for it; the answer is not 200 and carries no
\* token.
C5_Witness ==
    /\ response.op = "verify"
    /\ response.status \notin {200, 400}
    /\ response.held = Null
    /\ response.signature[1] = BufferFromHex(response.public_key)
    /\ AccountsByKey(BufferFromHex(response.public_key)) # {}
    /\ response.token.sub = Null

\* C6 (as claimed): on a started server, a challenge for a key whose register
\* was answered 201 is answered 200 with a nonce, and the verify that follows
\* it (no other challenge or verify for the key in between) with a signature
\* of that nonce under the key is answered 200 with a token whose subject is
\* the account register created.
C6_LoginSucceeds ==
    /\ (/\ response.op = "challenge"
        /\ response.status # 400
        /\ regHist[BufferFromHex(response.public_key)].created = 1)
       => (response.status = 200 /\ response.nonce # Null)
    /\ (/\ response.op = "verify"
        /\ response.status # 400
        /\ regHist[BufferFromHex(response.public_key)].created = 1
        /\ response.after.public_key = response.public_key
        /\ response.after.status = 200
        /\ response.signature = Sign(BufferFromHex(response.public_key),
                                     response.after.nonce))
       => /\ response.status = 200
          /\ \E a \in AccountsByKey(BufferFromHex(response.public_key)) :
                response.token.sub = a.id

\* C7 (as claimed): every challenge for a well-formed key is answered 200 with
\* a fresh nonce, whether or not the key has an account, and the nonce is stored
\* under the key exactly when the account exists.
C7_ChallengeUniform ==
    (response.op = "challenge" /\ response.status # 400) =>
        /\ response.status = 200
        /\ response.nonce # Null
        /\ (redisStore[response.public_key] = response.nonce)
              <=> (AccountsByKey(BufferFromHex(response.public_key)) # {})

\* ---- key distribution

\* C1: no two bundle fetches return the same one-time prekey row: a fetch
\* that answers with a prekey answers with a row no fetch answered with
\* before, and the rows held by the fetches in flight are pairwise distinct
\* and were never handed out.
C1_DistinctPrekeyPerFetch ==
    /\ response.op = "fetch" => ~response.rowBefore
    /\ \A i \in 1..Len(fetches) :
          fetches[i].otpk # NoRow =>
             /\ fetches[i].otpk.id \notin keyHist.handedRows
             /\ \A j \in 1..Len(fetches) :
                   (j # i /\ fetches[j].otpk # NoRow)
                      => fetches[j].otpk.id # fetches[i].otpk.id

\* C1 witness: two fetches of the same account that overlapped have both
\* answered with a prekey.
C1_Witness ==
    /\ response.op = "fetch"
    /\ response.status = 200
    /\ response.row # Null
    /\ response.group.N = 2
    /\ response.group.got = 2
    /\ Cardinality(keyHist.handedRows) >= 2

\* C2 (as claimed): a bundle fetch never answers with a one-time prekey whose
\* (account, key_id) pair an earlier bundle fetch answered with.
C2_PairNeverReturnedTwice ==
    (response.op = "fetch" /\ response.status = 200) => ~response.pairBefore

\* C3: when a group of N overlapping fetches of one account, started on a
\* pool of K prekeys that nothing added to meanwhile, has answered, min(N, K)
\* of the answers carried a prekey and the pool holds max(K - N, 0) prekeys.
C3_ConcurrentFetchCount ==
    (/\ response.op = "fetch"
     /\ response.status = 200
     /\ response.group # NoGroup
     /\ response.group.clean)
    => /\ response.group.got = Min(response.group.N, response.group.K)
       /\ Cardinality(PoolOf(response.account_id))
             = Max(response.group.K - response.group.N, 0)

\* C3 witness: two overlapping fetches on a pool of one prekey; the one that
\* answers last carries null, one prekey was handed out, the pool is empty.
C3_Witness ==
    /\ response.op = "fetch"
    /\ response.status = 200
    /\ response.group.clean
    /\ response.group.K = 1
    /\ response.group.N = 2
    /\ response.group.got = 1
    /\ response.bundle.one_time_prekey = NullPrekey
    /\ PoolOf(response.account_id) = {}

\* ---- message queue

\* C10: every row a drain returns is a row of the queue whose recipient is
\* the account the request was authenticated as.
C10_DrainOwnRowsOnly ==
    (response.op = "drain" /\ response.status = 200) =>
        /\ response.recipients \subseteq {response.account_id}
        /\ \A n \in 1..Len(response.messages) :
              \E m \in message_queue :
                 /\ m.id = response.messages[n].id
                 /\ m.recipient_id = response.account_id

\* C10 witness: an account drains and gets a message while the queue also
\* holds a row addressed to another account.
C10_Witness ==
    /\ response.op = "drain"
    /\ response.status = 200
    /\ Len(response.messages) >= 1
    /\ \E m \in message_queue : m.recipient_id # response.account_id

\* ---- messages: delete
\* C11: a delete by an authenticated account of a message whose recipient is
\* another account is answered 404 message_not_found and the message is still
\* in the queue afterwards; a delete removes a row only when the row's
\* recipient is the authenticated account.
C11_DeleteOwnRowsOnly ==
    (response.op = "delete" /\ response.account_id # Null) =>
        \A m \in response.found :
            IF m.recipient_id = response.account_id
            THEN response.status = 200 /\ m \notin message_queue
            ELSE /\ response.status = 404
                 /\ response.error = "message_not_found"
                 /\ m \in message_queue

\* C11 witness: account A's delete of a message addressed to B was answered.
C11_Witness ==
    /\ response.op = "delete"
    /\ response.account_id # Null
    /\ \E m \in response.found : m.recipient_id # response.account_id

\* ---- messages: sealed sender

\* C12: the queue row a send makes, the notification written to the
\* recipient's sockets and the entry the recipient's drain makes of the row
\* are the same whichever authenticated account performs the send, and no
\* queue row holds an attribute beyond id, recipient, ciphertext, tag and
\* expiry.
C12_SenderNonInterference ==
    /\ \A r \in message_queue :
          DOMAIN r = {"id", "recipient_id", "ciphertext", "message_type", "expires_at"}
    /\ (response.op = "send" /\ response.status = 201) =>
          \A a \in AccountIds :
             LET other == [response.send EXCEPT !.account_id = a] IN
             /\ QueueRow(other, response.message_id) = response.row
             /\ Notify(other, response.message_id) = response.writes
             /\ DrainEntry(QueueRow(other, response.message_id)) = DrainEntry(response.row)
    /\ response.op = "drain" =>
          \A n \in 1..Len(response.messages) :
             DOMAIN response.messages[n] = {"id", "ciphertext", "message_type"}

\* C12 witness: a send by an account to another account has been stored while
\* the recipient had an open, authenticated socket that got the notification.
C12_Witness ==
    /\ response.op = "send"
    /\ response.status = 201
    /\ response.send.account_id # response.send.recipient_id
    /\ response.row \in message_queue
    /\ response.writes # {}

\* ---- messages: round trip and order
\* C13 (as claimed): when an account's queue holds exactly one message, sent
\* while the queue was empty with ciphertext c and tag t and answered with
\* message id M, the account's drain yields exactly <<{id: M, ciphertext: c,
\* message_type: t}>>; and the drain of an account whose queue is empty
\* yields the empty list.
C13_RoundTrip ==
    (response.op = "drain" /\ response.status = 200) =>
        LET rows == QueueOf(response.account_id) IN
        /\ rows = {} => response.messages = <<>>
        /\ \A r \in rows :
              (rows = {r} /\ msgHist[r.id].alone) =>
                  response.messages =
                     <<[id |-> r.id, ciphertext |-> msgHist[r.id].ciphertext,
                        message_type |-> msgHist[r.id].message_type]>>

\* C14 (as claimed): when a send to a recipient completed before another send
\* to the same recipient began, the first message's identifier is the smaller
\* one, and a drain lists the first message before the second.
C14_MonotonicIds ==
    /\ \A id \in DOMAIN msgHist :
          \A e \in msgHist[id].completed \cap DOMAIN msgHist : e < id
    /\ (response.op = "drain" /\ response.status = 200) =>
          \A i, j \in 1..Len(response.messages) :
             response.messages[i].id \in msgHist[response.messages[j].id].completed
                => i < j

\* ---- messages: drain
\* C15: a drain by an account whose queue holds n rows returns min(n, 100)
\* entries, they are the account's rows with the smallest identifiers, listed
\* in strictly ascending identifier order, and the queue is as the drain
\* found it.
C15_DrainFirstHundred ==
    (response.op = "drain" /\ response.status = 200) =>
        \A rows \in {{r \in response.table : r.recipient_id = response.account_id}},
           listed \in {{response.messages[n].id : n \in 1..Len(response.messages)}} :
        /\ Len(response.messages) = Min(Cardinality(rows), 100)
        /\ \A entries \in {{DrainEntry(r) : r \in rows}} :
              \A n \in 1..Len(response.messages) : response.messages[n] \in entries
        /\ \A n \in 1..(Len(response.messages) - 1) :
              response.messages[n].id < response.messages[n + 1].id
        /\ \A r \in rows : r.id \notin listed => \A id \in listed : id < r.id
        /\ message_queue = response.table

\* C15 witness: a drain of a queue of more than 100 rows of the account, among
\* rows of another account.
C15_Witness ==
    /\ response.op = "drain"
    /\ response.status = 200
    /\ Cardinality(QueueOf(response.account_id)) > 100
    /\ Cardinality(message_queue) > Cardinality(QueueOf(response.account_id))

\* ---- reaper and revocation
\* C16: right after a reap run at time T no queue row and no revoked-token
\* record with expiry earlier than T remains, and every row of the two tables
\* whose expiry is not earlier than T is still there.
C16_ReapRemovesExpiredOnly ==
    response.op = "reap" =>
        /\ \A r \in message_queue : ~(r.expires_at < response.T)
        /\ \A r \in revoked_tokens : ~(r.expires_at < response.T)
        /\ \A r \in response.queue : ~(r.expires_at < response.T) => r \in message_queue
        /\ \A r \in response.revoked : ~(r.expires_at < response.T) => r \in revoked_tokens
        /\ message_queue \subseteq response.queue
        /\ revoked_tokens \subseteq response.revoked

\* C16 witness: a reap that removed an expired message and an expired
\* revocation and left a message that expires at the very instant of the reap.
C16_Witness ==
    /\ response.op = "reap"
    /\ \E r \in response.queue : r.expires_at < response.T
    /\ \E r \in response.revoked : r.expires_at < response.T
    /\ \E r \in message_queue : r.expires_at = response.T

\* C17 (as claimed): a drain or delete whose bearer token's identifier is in
\* the revoked-token table is answered 401 invalid_token.
C17_RevokedTokenRejected ==
    (/\ response.op \in {"drain", "delete"}
     /\ response.authorization # Missing
     /\ response.authorization[1] = "Bearer"
     /\ \E r \in revoked_tokens : r.jti = response.authorization[2].jti)
        => (response.status = 401 /\ response.error = "invalid_token")

\* ---- middleware
\* C18: a drain or delete without Authorization header, or with one that does
\* not start with "Bearer ", is answered 401 unauthorized; one whose bearer
\* token is not signed with the server's secret or has expired is answered
\* 401 invalid_token; in both cases the handler has not run (no account
\* identifier, the queue as before). Every other request is handled with the
\* account identifier equal to the token's subject.
C18_AuthThreeOutcomes ==
    response.op \in {"drain", "delete"} =>
        LET h == response.authorization IN
        IF h = Missing \/ h[1] # "Bearer"
        THEN /\ response.status = 401 /\ response.error = "unauthorized"
             /\ response.account_id = Null
             /\ message_queue = response.table
        ELSE IF h[2].secret # JWT_SECRET \/ now >= h[2].exp
        THEN /\ response.status = 401 /\ response.error = "invalid_token"
             /\ response.account_id = Null
             /\ message_queue = response.table
        ELSE /\ response.status # 401
             /\ response.account_id = h[2].sub

\* C18 witness: a delete of a queued message bearing a well-signed token that
\* has expired was refused.
C18_Witness ==
    /\ response.op = "delete"
    /\ response.authorization = Bearer(StaleToken(1))
    /\ response.found # {}
    /\ response.status = 401

\* ---- relay
\* C19 (as claimed): a frame received by a socket that is open and not yet
\* authenticated decides: an auth frame with a valid token authenticates the
\* socket and is answered auth_ok; an auth frame with an invalid token closes
\* the socket with code 4002; any other frame closes it with code 4001. A
\* socket is authenticated by nothing but a valid token.
C19_SocketStateMachine ==
    (response.op = "socket" /\ response.event = "message") =>
        LET s == response.socket
            frame == response.frame
            isAuth == frame.type = "auth" /\ frame.token # NoToken
            valid == isAuth /\ frame.token.secret = JWT_SECRET /\ now < frame.token.exp
        IN
        /\ (response.before.readyState = "OPEN" /\ response.before.accountId = Null) =>
              IF valid
              THEN /\ sockets[s].accountId = frame.token.sub
                   /\ sockets[s].readyState = "OPEN"
                   /\ response.writes = {<<s, [type |-> "auth_ok", message_id |-> Null]>>}
              ELSE IF isAuth
              THEN sockets[s].readyState = "CLOSING" /\ sockets[s].closeCode = 4002
              ELSE sockets[s].readyState = "CLOSING" /\ sockets[s].closeCode = 4001
        /\ (response.before.accountId = Null /\ sockets[s].accountId # Null) => valid

\* C20: a socket is in the set registered for account X exactly when it was
\* authenticated with a token of subject X and has not closed; no socket is
\* in the sets of two accounts; the registry holds no empty set.
C20_RegistryInvariant ==
    /\ \A s \in Sockets, a \in AccountIds :
          s \in SocketsOf(a) <=>
             (sockets[s].accountId = a /\ sockets[s].readyState \in {"OPEN", "CLOSING"})
    /\ \A a, b \in DOMAIN connections : a # b => connections[a] \cap connections[b] = {}
    /\ \A a \in DOMAIN connections : connections[a] # {} /\ a \in AccountIds

\* C20 witness: two sockets were registered for one account, one of them has
\* closed and the other is still registered.
C20_Witness ==
    \E s, t \in Sockets, a \in AccountIds :
       /\ s # t
       /\ sockets[s].accountId = a /\ sockets[s].readyState = "CLOSED"
       /\ sockets[t].accountId = a /\ t \in SocketsOf(a)
       /\ response.op = "socket" /\ response.event = "close" /\ response.socket = s

C22_WriteFailureDeregisters ==
    (response.op = "send" /\ response.status = 201 /\ response.failed # {}) =>
        LET R == response.row.recipient_id IN
        /\ response.message_id = response.row.id
        /\ response.row \in message_queue
        /\ \A s \in Sockets \ response.failed :
              (sockets[s].readyState = "OPEN" /\ sockets[s].accountId = R) =>
                  <<s, [type |-> "new_message", message_id |-> response.message_id]>>
                      \in response.writes
        /\ response.failed \cap SocketsOf(R) = {}

\* ---- rate limiter
\* The window of the limiter an instant lies in.
WindowOf(t) == t \div windowMs
\* Requests under header h the limiter counted in the window of instant t,
\* and those it passed on in the windowMs milliseconds from instant t on.
SeenInWindow(h, t) ==
    LET at == {x \in DOMAIN rateLog : x[1] = h /\ WindowOf(x[2]) = WindowOf(t)}
        Sum[S \in SUBSET at] ==
            IF S = {} THEN 0
            ELSE LET x == CHOOSE y \in S : TRUE IN rateLog[x].seen + Sum[S \ {x}]
    IN Sum[at]
PassedFrom(h, t) ==
    LET at == {x \in DOMAIN rateLog : x[1] = h /\ t <= x[2] /\ x[2] < t + windowMs}
        Sum[S \in SUBSET at] ==
            IF S = {} THEN 0
            ELSE LET x == CHOOSE y \in S : TRUE IN rateLog[x].passed + Sum[S \ {x}]
    IN Sum[at]
\* The credential of a request: its Authorization header, the shared
\* 'anonymous' when it has none.
Credential(h) == IF h = Missing THEN <<"anonymous">> ELSE h
CountedInWindow(cred, t) ==
    LET hs == {h \in RateHeaders : Credential(h) = cred}
        Sum[S \in SUBSET hs] ==
            IF S = {} THEN 0
            ELSE LET h == CHOOSE y \in S : TRUE IN SeenInWindow(h, t) + Sum[S \ {h}]
    IN Sum[hs]

C24_SlidingWindow ==
    \A h \in RateHeaders, t \in RateInstants : PassedFrom(h, t) <= max

\* ---- keys: replenish
\* C25: no two rows of the pool have the same (account, key_id), and no step
\* changes the row of an (account, key_id) that stays in the pool: its public
\* key and its id, which is its place in the order of consumption, are as
\* they were. Hence a replenish whose key_ids are all in the pool leaves the
\* pool as it is.
C25_ReplenishIdempotent ==
    /\ [](Cardinality({<<o.account_id, o.key_id>> : o \in one_time_prekeys})
              = Cardinality(one_time_prekeys))
    /\ [][\A pairs \in {{<<p.account_id, p.key_id>> : p \in one_time_prekeys'}} :
             \A o \in one_time_prekeys :
                <<o.account_id, o.key_id>> \in pairs => o \in one_time_prekeys']_vars

\* C25 witness: a replenish has been answered 200 that carried, for a key_id
\* in the caller's pool, a public key other than the stored one.
C25_Witness ==
    /\ response.op = "replenish"
    /\ response.status = 200
    /\ \E n \in 1..Len(response.request.value.elems), o \in PoolOf(response.account_id) :
          /\ o.key_id = response.request.value.elems[n].key_id
          /\ o.public_key # response.request.value.elems[n].public_key

\* C26: a replenish of an authenticated caller whose one_time_prekeys is not
\* an array, is empty or has more than 200 elements is answered 400 and
\* leaves the pool as it found it; a replenish in flight carries an array of
\* 1 to 200 elements; a row that enters the pool belongs to the account that
\* is the subject of the valid token of a replenish in flight.
C26_ReplenishBatchBounds ==
    /\ [](response.op = "replenish" =>
             \A v \in {response.request.value} :
                (/\ requireAuth(response.request.authorization).next
                 /\ (~v.isArray \/ Len(v.elems) = 0 \/ Len(v.elems) > 200))
                => /\ response.status = 400
                   /\ one_time_prekeys = response.table)
    /\ [](\A i \in 1..Len(replenishes) :
             /\ replenishes[i].request.value.isArray
             /\ Len(replenishes[i].request.value.elems) \in 1..200)
    /\ [][\A p \in one_time_prekeys' \ one_time_prekeys :
             \E i \in 1..Len(replenishes) :
                /\ replenishes[i].request.authorization[1] = "Bearer"
                /\ jwt_verify(replenishes[i].request.authorization[2], JWT_SECRET)
                /\ replenishes[i].request.authorization[2].sub = p.account_id]_vars

\* C26 witness: account 2's array of 200 keys has been stored whole, account
\* 1's pool holds none of it, and an array of 201 keys has just been
\* answered 400.
C26_Witness ==
    /\ response.op = "replenish"
    /\ response.status = 400
    /\ response.request.value.isArray
    /\ Len(response.request.value.elems) = PrekeyBatchLimit + 1
    /\ Cardinality(PoolOf(2)) = PrekeyBatchLimit
    /\ PoolOf(1) = {}

\* ---- keys: signed prekey
\* C27: no account has more than one signed prekey row, and when a rotation
\* has been answered 200 the account's only row is the one the rotation
\* carried.
C27_OneSignedPrekey ==
    /\ \A a \in AccountIds :
          Cardinality({s \in signed_prekeys : s.account_id = a}) <= 1
    /\ (response.op = "rotate" /\ response.status = 200) =>
          {s \in signed_prekeys : s.account_id = response.account_id}
             = {[account_id |-> response.account_id,
                 key_id |-> response.request.key_id,
                 public_key |-> response.request.public_key,
                 signature |-> response.request.signature]}

\* C27 witness: a rotation has replaced the row an earlier rotation of the
\* account stored while it was itself in flight.
C27_Witness ==
    /\ response.op = "rotate"
    /\ response.status = 200
    /\ RotOf(response.account_id).n = 2
    /\ \E s \in response.table :
          /\ s.account_id = response.account_id
          /\ s.key_id \notin {1, response.request.key_id}

\* C28: a bundle fetch of account X that started after a rotation of X was
\* answered 200, and that answers before another rotation of X is, carries
\* the key id, public key and signature of that rotation.
C28_RotateThenFetch ==
    (/\ response.op = "fetch"
     /\ response.status = 200
     /\ response.rot.n > 0
     /\ RotOf(response.account_id).n = response.rot.n)
    => response.bundle.signed_prekey = response.rot.spk

\* C28 witness: a fetch that started after the second rotation of the
\* account has answered with the rotated key.
C28_Witness ==
    /\ response.op = "fetch"
    /\ response.status = 200
    /\ response.rot.n = 2
    /\ RotOf(response.account_id).n = 2
    /\ response.bundle.signed_prekey.key_id \in {2, 3}

\* C29 (as claimed): a rotation is answered 200 only when its signature
\* verifies over the new public key under the identity key of the token's
\* account; a rotation of an authenticated, existing account that lacks a
\* field or whose signature does not verify is answered 400 and leaves
\* signed_prekeys as it was; no rotation changes the row of an account other
\* than the token's.
C29_RotateVerified ==
    response.op = "rotate" =>
        LET req == response.request
            auth == requireAuth(req.authorization)
            missing == req.key_id = Null \/ req.public_key = "" \/ req.signature = Missing
            valid == /\ ~missing
                     /\ \E acc \in AccountsById(auth.account_id) :
                           req.signature = Sign(acc.public_key, req.public_key)
        IN
        /\ response.status = 200 => (auth.next /\ valid)
        /\ (auth.next /\ AccountsById(auth.account_id) # {} /\ ~valid) =>
              (response.status = 400 /\ signed_prekeys = response.table)
        /\ {s \in signed_prekeys : s.account_id # auth.account_id}
              = {s \in response.table : s.account_id # auth.account_id}

\* C30 (as claimed): every account whose registration has been answered has
\* a signed prekey row, and no bundle fetch is answered 404 no_signed_prekey.
C30_SignedPrekeyPresent ==
    /\ \A a \in accounts :
          (\A r \in registers : r.account_id # a.id) => signed_prekeys_account_id_key(a.id)
    /\ response.op = "fetch" => response.error # "no_signed_prekey"

\* The bytes Buffer.from makes of the ciphertext of a send's body.
DecodedLength(body) == CipherLength(CipherFromHex(body.ciphertext))

\* C31 (as claimed): every queue row's payload is at most 262144 bytes; a
\* send with recipient_id and ciphertext whose decoded ciphertext exceeds
\* 262144 bytes is answered 413 message_too_large, and one to an account
\* whose ciphertext decodes to exactly 262144 bytes is answered 201.
C31_PayloadBound ==
    /\ \A m \in message_queue : CipherLength(m.ciphertext) <= MaxCiphertextBytes
    /\ (/\ response.op = "send"
        /\ response.request.recipient_id # Null
        /\ response.request.ciphertext # Missing)
       => /\ DecodedLength(response.request) > MaxCiphertextBytes
             => response.status = 413 /\ response.error = "message_too_large"
          /\ (/\ DecodedLength(response.request) = MaxCiphertextBytes
              /\ AccountsById(response.request.recipient_id) # {})
             => response.status = 201

\* C32 (as claimed): every queue row's classification tag is 1 or 2, and the
\* row a send without message_type makes has tag 1.
C32_TagOneOrTwo ==
    /\ \A m \in message_queue : m.message_type \in {1, 2}
    /\ (/\ response.op = "send"
        /\ response.status = 201
        /\ response.request.message_type = Null)
       => response.row.message_type = 1

\* The body has one of the defects the send handler turns away.
Defective(body) ==
    IF body.recipient_id = Null \/ body.ciphertext = Missing THEN TRUE
    ELSE \/ DecodedLength(body) > MaxCiphertextBytes
         \/ \A a \in accounts : a.id # body.recipient_id

\* C33: a send without recipient_id or ciphertext, with a ciphertext of more
\* than 262144 bytes or to a recipient that is no account is never answered
\* 201, and the step that answers a send 400, 413 or 404 leaves the queue,
\* the sends in flight, the sockets and the connection registry as they were
\* and writes to no socket.
C33_RejectedSendNoEffect ==
    [][/\ (response'.op = "send" /\ Defective(response'.request))
             => response'.status # 201
       /\ (response'.op = "send" /\ response'.status \in {400, 413, 404})
             => /\ message_queue' = message_queue
                /\ sends' = sends
                /\ sockets' = sockets
                /\ connections' = connections
                /\ response'.writes = {}]_vars
\* An oversize send to account 1 was answered 413 while a row is queued for
\* account 1 and a socket of account 1 is registered.
C33_Witness ==
    /\ response.op = "send"
    /\ response.status = 413
    /\ response.request.recipient_id = 1
    /\ QueueOf(1) # {}
    /\ SocketsOf(1) # {}

\* The response answers a verify with both fields for the key of an account,
\* and the request before it for that key string was a challenge.
VerifyAfterChallenge ==
    /\ response.op = "verify"
    /\ response.status # 400
    /\ response.after.status # 0
    /\ response.after.public_key = response.public_key
    /\ AccountsByKey(BufferFromHex(response.public_key)) # {}

\* C34 (as claimed): a verify for a registered key that arrives more than
\* 120 s after the challenge for that key is answered 401
\* invalid_or_expired_challenge and carries no token, whatever it signed.
C34_NonceExpires ==
    (VerifyAfterChallenge /\ msNow > response.after.at + NonceTTL * 1000)
       => /\ response.status = 401
          /\ response.error = "invalid_or_expired_challenge"
          /\ response.token.sub = Null

\* The response answers a verify with both fields for the key of an account,
\* the verify before it was for the same key string and no challenge came
\* between the two.
VerifyAfterVerify ==
    /\ response.op = "verify"
    /\ response.status # 400
    /\ AccountsByKey(BufferFromHex(response.public_key)) # {}
    /\ response.last # <<>>
    /\ response.last[1] = response.public_key
    /\ response.after.status = 0

\* C37 (as claimed): a verify that finds a nonce stored for its key and
\* carries no signature by the key over that nonce is answered 401
\* invalid_signature, and a verify for a registered key that follows a
\* verify for the same key with no challenge between them is answered 401
\* invalid_or_expired_challenge, whatever it signed.
C37_NonceDeletedBeforeCheck ==
    /\ (/\ response.op = "verify"
        /\ response.held # Null
        /\ ~crypto_sign_verify_detached(response.signature, response.held,
                                        BufferFromHex(response.public_key)))
       => response.status = 401 /\ response.error = "invalid_signature"
    /\ VerifyAfterVerify
       => response.status = 401 /\ response.error = "invalid_or_expired_challenge"

\* C38 (as claimed): a challenge for a registered key is answered 200 and
\* leaves the key's entry holding the nonce it returned, readable for 120 s
\* from the challenge, whatever the entry held before; and a verify is
\* answered 200 only when it signed the nonce the entry held, which is the
\* nonce of the challenge before it when that was for the same key string.
C38_OneLiveNonce ==
    /\ (/\ response.op = "challenge"
        /\ response.status # 400
        /\ AccountsByKey(BufferFromHex(response.public_key)) # {})
       => /\ response.status = 200
          /\ redisStore[response.public_key] = response.nonce
          /\ redisExpiry[response.public_key] = msNow + NonceTTL * 1000
    /\ (response.op = "verify" /\ response.status = 200)
       => /\ response.held = response.signature[2]
          /\ (/\ response.after.status # 0
              /\ response.after.public_key = response.public_key)
             => response.after.nonce = response.held

\* C35: a bundle fetch answered 200 reports needs_prekey_refresh = TRUE
\* exactly when the prekey_count it reports is below the threshold; when no
\* other fetch of the target overlapped it and nothing was added to the
\* target's pool while it ran, prekey_count is the pool's size when the fetch
\* started less one (0 for an empty pool), and is the pool's size now.
C35_RefreshFlag ==
    (response.op = "fetch" /\ response.status = 200)
    => /\ response.needs_prekey_refresh
             <=> (response.prekey_count < PREKEY_REFILL_THRESHOLD)
       /\ (/\ response.group # NoGroup
           /\ response.group.clean
           /\ response.group.N = 1)
          => /\ response.prekey_count = Max(response.group.K - 1, 0)
             /\ response.prekey_count = Cardinality(PoolOf(response.account_id))
\* A fetch on its own on a pool of one key more than the threshold: it
\* reports the threshold as count and no need of refresh.
C35_Witness ==
    /\ response.op = "fetch"
    /\ response.status = 200
    /\ response.group # NoGroup
    /\ response.group.clean
    /\ response.group.N = 1
    /\ response.group.K = PREKEY_REFILL_THRESHOLD + 1
    /\ response.prekey_count = PREKEY_REFILL_THRESHOLD
    /\ ~response.needs_prekey_refresh

\* C36 (as claimed): every queue row and every revoked-token record whose
\* expiry has passed is eventually deleted.
C36_ReaperRuns ==
    /\ \A id \in 1..MaxMessages :
          (\E m \in message_queue : m.id = id /\ m.expires_at < now)
             ~> (\A m \in message_queue : m.id # id)
    /\ (\E r \in revoked_tokens : r.expires_at < now)
          ~> (\A r \in revoked_tokens : r.expires_at >= now)

\* C39 (as claimed): the server listens only when both stores are connected,
\* and from then on the handle the auth routes call set and getdel on is the
\* connected client.
C39_StartupOrdering ==
    Listening => /\ pool = "connected"
                 /\ redisClient = "connected"
                 /\ redis = redisClient

\* The identifiers of the entries a drain's answer lists.
Listed == IF response.op = "drain"
          THEN {response.messages[n].id : n \in 1..Len(response.messages)}
          ELSE {}

\* C40: when the client of account 1 keeps draining and deleting what each
\* drain returned, and finitely many messages are sent to account 1, every
\* row queued for account 1 that the client does not hold yet is eventually
\* listed by a drain of account 1, and from some moment on the queue of
\* account 1 is empty; rows of account 1 leave the queue only after a drain
\* has listed them. Queues of up to MaxQueue rows, more than one drain
\* returns, are covered.
C40_EventualDelivery ==
    /\ <>[](QueueOf(1) = {})
    /\ \A id \in {1, 2, DrainLimit, DrainLimit + 1, MaxQueue} :
          ((\E m \in QueueOf(1) : m.id = id) /\ (\A n \in 1..Len(inbox) : inbox[n] # id))
             ~> (response.op = "drain" /\ response.account_id = 1 /\ id \in Listed)
    /\ [][\A m \in QueueOf(1) : m \notin message_queue' => m.id = Head(inbox)]_vars
\* The client has deleted the last row of a queue that held MaxQueue rows of
\* account 1, which took two drains.
C40_Witness ==
    /\ response.op = "delete"
    /\ response.status = 200
    /\ response.id = MaxQueue
    /\ msgIdsUsed = 1..MaxQueue
    /\ message_queue = {}
    /\ inbox = <<>>
====
